---- MODULE Spec2Model ----
(***************************************************************************)
(* Hand evaluation and draw classification of pious (src/src/pious/hands.py *)
(* and src/src/pious/hand_categories.py).                                   *)
(*                                                                          *)
(* Representation.  A u32 bit mask (a rankset, a packed evaluation) is the  *)
(* non-negative integer it denotes; the bitwise operators work on it byte   *)
(* by byte.  No mask of the program reaches bit 30: the largest is          *)
(* (8 << 26) | (a rankset << 14).  A Python attribute that may hold None is *)
(* a sequence: << >> is None, <<v>> holds v.  A Python string is a sequence *)
(* of one-character strings.                                                *)
(***************************************************************************)
EXTENDS Integers, Sequences, FiniteSets, TLC

VARIABLES
    obj,          \* the Hand instances: id -> the instance's attributes
    ret,          \* outcome of the last call: instance, operation, result or exception
    msb_args,     \* arguments <<x, n>> of the keep_n_msb calls of the last computing evaluation
    accountings   \* id -> how many times _evaluate_internal ran its accounting

vars == <<obj, ret, msb_args, accountings>>

----------------------------------------------------------------------------
(* Bounds of the model. *)

\* number of cards of DeckOrder the hands of Spec are dealt from
DeckSize == 8
\* number of cards of DeckOrder the hands of SpecEval are dealt from
EvalDeckSize == 12
\* the accounting counter stops counting here
AccountingCap == 3
\* number of distinct board ranks of the hands of SpecDraw
MaxBoardRanks == 4
\* number of cards of FlushDeckOrder the hands of SpecFlush are dealt from
FlushDeckSize == 11
\* number of cards of PairDeckOrder the hands of SpecPair are dealt from
PairDeckSize == 10
\* longest token handed to card_from_str in SpecToken
MaxTokenLen == 3
\* number of cards of ConstructDeckOrder the constructor is handed
ConstructDeckSize == 6
\* number of cards of RaceDeckOrder the hands of SpecRace are dealt from
RaceDeckSize == 6
\* number of cards of FrameDeckOrder the hands of SpecFrame are dealt from
FrameDeckSize == 6
\* most actions of a line string of SpecLine after its root
MaxLineActions == 4
\* number of seats of the simulation Game replays in SpecGame
NumPlayers == 6
\* most actions of a recorded sequence Game replays in SpecGame
MaxSequence == 8
\* number of cards of DeckOrder the hands of SpecRaise are dealt from
RaiseDeckSize == 10

----------------------------------------------------------------------------
(* Bit masks. *)

Pow2 == [i \in 0..30 |-> 2^i]

\* the positions of the set bits of a mask
Bits(n) == {i \in 0..30 : (n \div Pow2[i]) % 2 = 1}

\* the mask with the bits of the given positions set
RECURSIVE Value(_)
Value(m) == IF m = {} THEN 0
            ELSE LET i == CHOOSE j \in m : TRUE
                 IN Pow2[i] + Value(m \ {i})

\* a & b bit by bit
RECURSIVE AndBits(_, _)
AndBits(a, b) == IF a = 0 \/ b = 0 THEN 0
                 ELSE (a % 2) * (b % 2) + 2 * AndBits(a \div 2, b \div 2)

\* the table of a & b over the bytes: AndByte[a + 1][b + 1]
RECURSIVE AndRow(_, _, _)
AndRow(a, lo, hi) ==
    IF lo = hi THEN <<AndBits(a, lo)>>
    ELSE AndRow(a, lo, (lo + hi) \div 2) \o AndRow(a, ((lo + hi) \div 2) + 1, hi)
RECURSIVE AndRows(_, _)
AndRows(lo, hi) ==
    IF lo = hi THEN <<AndRow(lo, 0, 255)>>
    ELSE AndRows(lo, (lo + hi) \div 2) \o AndRows(((lo + hi) \div 2) + 1, hi)
AndByte == AndRows(0, 255)

\* a & b
RECURSIVE BitAnd(_, _)
BitAnd(a, b) == IF a = 0 \/ b = 0 THEN 0
                ELSE AndByte[(a % 256) + 1][(b % 256) + 1]
                     + 256 * BitAnd(a \div 256, b \div 256)
\* a | b
BitOr(a, b) == a + b - BitAnd(a, b)
\* a ^ b
BitXor(a, b) == a + b - 2 * BitAnd(a, b)
\* a & ~b
BitAndNot(a, b) == a - BitAnd(a, b)
\* a << k, a >> k
Shl(a, k) == a * Pow2[k]
Shr(a, k) == a \div Pow2[k]

----------------------------------------------------------------------------
(* Card codec. *)

_SUIT_STR == <<"c", "d", "h", "s">>
_RANK_STR == <<"2", "3", "4", "5", "6", "7", "8", "9", "T", "J", "Q", "K", "A">>

_SUITS == [ch \in {_SUIT_STR[i] : i \in 1..4} |->
             (CHOOSE i \in 1..4 : _SUIT_STR[i] = ch) - 1]
_RANKS == [ch \in {_RANK_STR[i] : i \in 1..13} |->
             (CHOOSE i \in 1..13 : _RANK_STR[i] = ch) - 1]

\* c is a two-character string
card_from_str(c) == 4 * _RANKS[c[1]] + _SUITS[c[2]]

\* card_from_str_raises with the length tested by the dictionary lookup
card_from_str_raises_lookup_only(c) ==
    IF Len(c) = 2 /\ c[1] \in DOMAIN _RANKS /\ c[2] \in DOMAIN _SUITS THEN ""
    ELSE "KeyError"

\* the exception card_from_str(c) ends with, "" when it returns: the unpacking
\* r, s = c wants two characters, then _RANKS[r] and _SUITS[s] are looked up
card_from_str_raises(c) ==
    IF Len(c) # 2 THEN "ValueError"
    ELSE IF c[1] \notin DOMAIN _RANKS \/ c[2] \notin DOMAIN _SUITS THEN "KeyError"
    ELSE ""

\* card_to_str decoding suit-major values (13 * suit + rank)
card_to_str_suit_major(c) == <<_RANK_STR[(c % 13) + 1], _SUIT_STR[(c \div 13) + 1]>>

card_to_str(c) == <<_RANK_STR[(c \div 4) + 1], _SUIT_STR[(c % 4) + 1]>>

\* the two-character strings of a rank of _RANK_STR and a suit of _SUIT_STR
CardStrings == {<<_RANK_STR[r], _SUIT_STR[s]>> : r \in 1..Len(_RANK_STR), s \in 1..Len(_SUIT_STR)}

\* the values of Card that stand for a card
Cards == 0 .. (4 * Len(_RANK_STR) - 1)

----------------------------------------------------------------------------
(* Bit utilities. *)

NibbleTable == <<0, 1, 1, 2, 1, 2, 2, 3, 1, 2, 2, 3, 2, 3, 3, 4>>

\* x = nibble & 0xF, then the case of x
count_ones_in_nibble(nibble) == NibbleTable[(nibble % 16) + 1]

RECURSIVE count_ones(_)
count_ones(x) == IF x = 0 THEN 0
                 ELSE count_ones_in_nibble(x) + count_ones(Shr(x, 4))

\* one stage of the binary search, s = <<n, x>>: the mask of the stage covers
\* the width bits from bit lo up
LzStage(s, lo, width) ==
    IF Shr(s[2], lo) % Pow2[width] = 0 THEN <<s[1] + width, s[2]>>
    ELSE <<s[1], Shr(s[2], width)>>

leading_zeros(x) ==
    LET s1 == LzStage(<<0, x>>, 16, 16)
        s2 == LzStage(s1, 8, 8)
        s3 == LzStage(s2, 4, 4)
        s4 == LzStage(s3, 2, 2)
        s5 == LzStage(s4, 1, 1)
    IN IF s5[2] % 2 = 0 THEN s5[1] + 1 ELSE s5[1]

\* n ^ 0x1F
Xor1F(n) == BitXor(n, 31)

\* 1 << k in a 32 bit word: a shift by the width or more leaves nothing
OneShl(k) == IF k <= 31 THEN 2^k ELSE 0

RECURSIVE keep_n_msb_from(_, _, _)
keep_n_msb_from(x, n, acc) ==
    IF n = 0 THEN acc
    ELSE LET bit == OneShl(Xor1F(leading_zeros(x)))
         IN  keep_n_msb_from(BitXor(x, bit), n - 1, BitOr(acc, bit))

\* keep_n_msb with a loop that stops one bit early
keep_n_msb_one_short(x, n) == keep_n_msb_from(x, n - 1, 0)

keep_n_msb(x, n) == keep_n_msb_from(x, n, 0)

_WHEEL == 4111

\* the conjunction one shift short: runs of four ranks
StraightTopsOfFour(rankset) ==
    BitAnd(rankset, BitAnd(Shl(rankset, 1), BitAnd(Shl(rankset, 2), Shl(rankset, 3))))

\* rankset & (rankset << 1) & (rankset << 2) & (rankset << 3) & (rankset << 4)
StraightTops(rankset) ==
    BitAnd(rankset, BitAnd(Shl(rankset, 1), BitAnd(Shl(rankset, 2),
        BitAnd(Shl(rankset, 3), Shl(rankset, 4)))))

\* find_straight without the special case of the wheel
find_straight_no_wheel(rankset) ==
    LET is_straight == StraightTops(rankset)
    IN  IF is_straight # 0 THEN keep_n_msb(is_straight, 1) ELSE 0

find_straight(rankset) ==
    LET is_straight == StraightTops(rankset)
    IN  IF is_straight # 0 THEN keep_n_msb(is_straight, 1)
        ELSE IF BitAnd(rankset, _WHEEL) = _WHEEL THEN Shl(1, 3)
        ELSE 0

\* the keep_n_msb calls find_straight makes
find_straight_calls(rankset) ==
    LET is_straight == StraightTops(rankset)
    IN  IF is_straight # 0 THEN {<<is_straight, 1>>} ELSE {}

----------------------------------------------------------------------------
(* Hand. *)

STRAIGHT_FLUSH == 8
QUADS == 7
FULL_HOUSE == 6
FLUSH == 5
STRAIGHT == 4
TRIPS == 3
TWO_PAIR == 2
PAIR == 1
HIGH_CARD == 0

None == << >>
Some(v) == <<v>>

\* the two-character pieces s[i : i + 2] for i in range(0, len(s), 2)
Chunks(s) == [k \in 1..((Len(s) + 1) \div 2) |->
                SubSeq(s, 2 * k - 1, IF 2 * k <= Len(s) THEN 2 * k ELSE Len(s))]

\* the list xs without the entries that are in the list seen
RECURSIVE NotIn(_, _)
NotIn(xs, seen) ==
    IF xs = << >> THEN << >>
    ELSE IF \E k \in DOMAIN seen : seen[k] = Head(xs) THEN NotIn(Tail(xs), seen)
    ELSE <<Head(xs)>> \o NotIn(Tail(xs), seen)

\* Hand.__init__ dropping from the board the cards the hole already holds
HandInitDistinct(hand, board) ==
    LET hs == Chunks(hand)
        bs == Chunks(board)
        hand_cards == [k \in DOMAIN hs |-> card_from_str(hs[k])]
        board_cards == NotIn([k \in DOMAIN bs |-> card_from_str(bs[k])], hand_cards)
    IN  [hand |-> hand, board |-> board,
         hand_cards |-> hand_cards,
         board_cards |-> board_cards,
         all_cards |-> hand_cards \o board_cards,
         _evaluation |-> 0,
         _hand_type |-> 0,
         _hand_distinguisher |-> 0,
         _rankset |-> None,
         _rank_count |-> None,
         _rankset_suit |-> None,
         _rankset_of_count |-> None,
         _suit_count |-> None,
         _hand_rankset |-> None,
         _hand_rank_count |-> None,
         _hand_rankset_suit |-> None,
         _hand_rankset_of_count |-> None,
         _hand_suit_count |-> None,
         _board_rankset |-> None,
         _board_rank_count |-> None,
         _board_rankset_suit |-> None,
         _board_rankset_of_count |-> None,
         _board_extensive_details |-> None]

\* Hand(hand, board): the two fields of the named tuple, then the attributes
\* Hand.__init__ sets
HandInit(hand, board) ==
    LET hs == Chunks(hand)
        bs == Chunks(board)
        hand_cards == [k \in DOMAIN hs |-> card_from_str(hs[k])]
        board_cards == [k \in DOMAIN bs |-> card_from_str(bs[k])]
    IN  [hand |-> hand, board |-> board,
         hand_cards |-> hand_cards,
         board_cards |-> board_cards,
         all_cards |-> hand_cards \o board_cards,
         _evaluation |-> 0,
         _hand_type |-> 0,
         _hand_distinguisher |-> 0,
         _rankset |-> None,
         _rank_count |-> None,
         _rankset_suit |-> None,
         _rankset_of_count |-> None,
         _suit_count |-> None,
         _hand_rankset |-> None,
         _hand_rank_count |-> None,
         _hand_rankset_suit |-> None,
         _hand_rankset_of_count |-> None,
         _hand_suit_count |-> None,
         _board_rankset |-> None,
         _board_rank_count |-> None,
         _board_rankset_suit |-> None,
         _board_rankset_of_count |-> None,
         _board_extensive_details |-> None]

\* The rank and suit accounting of a list of cards (the loops over the cards):
\* x |= 1 << r over the cards sets the bits of the ranks met
CardRankset(cards) == Value({cards[k] \div 4 : k \in DOMAIN cards})
CardRanksetSuit(cards) ==
    [s \in 0..3 |->
        Value({cards[k] \div 4 : k \in {j \in DOMAIN cards : cards[j] % 4 = s}})]
CardRankCount(cards) ==
    [r \in 0..12 |-> Cardinality({k \in DOMAIN cards : cards[k] \div 4 = r})]
\* for r in range(13): rankset_of_count[rank_count[r]] |= 1 << r, from rank r on
RECURSIVE RanksetOfCountFrom(_, _, _)
RanksetOfCountFrom(rank_count, r, acc) ==
    IF r = 13 THEN acc
    ELSE RanksetOfCountFrom(rank_count, r + 1,
             [acc EXCEPT ![rank_count[r]] = BitOr(@, Shl(1, r))])
RanksetOfCount(rank_count) == RanksetOfCountFrom(rank_count, 0, [n \in 0..4 |-> 0])

\* the local variables of _evaluate_internal before the branches
Accounting(o) ==
    LET cards == o.board_cards \o o.hand_cards
        rankset_suit == CardRanksetSuit(cards)
        hand_rankset_suit == CardRanksetSuit(o.hand_cards)
        rank_count == CardRankCount(cards)
        hand_rank_count == CardRankCount(o.hand_cards)
        board_rank_count == CardRankCount(o.board_cards)
    IN  [rankset |-> CardRankset(cards),
         rankset_suit |-> rankset_suit,
         rankset_of_count |-> RanksetOfCount(rank_count),
         rank_count |-> rank_count,
         suit_count |-> [s \in 0..3 |-> count_ones(rankset_suit[s])],
         hand_rankset |-> CardRankset(o.hand_cards),
         hand_rankset_suit |-> hand_rankset_suit,
         hand_rankset_of_count |-> RanksetOfCount(hand_rank_count),
         hand_rank_count |-> hand_rank_count,
         hand_suit_count |-> [s \in 0..3 |-> count_ones(hand_rankset_suit[s])],
         board_rankset |-> CardRankset(o.board_cards),
         board_rankset_suit |-> CardRanksetSuit(o.board_cards),
         board_rankset_of_count |-> RanksetOfCount(board_rank_count),
         board_rank_count |-> board_rank_count]

\* (type << 26) | bits
Pack(type, bits) == BitOr(Shl(type, 26), bits)

\* The branches of _evaluate_internal over the accounting a:
\* ev is the value stored in _evaluation, early tells the return of the
\* straight flush branch, calls are the arguments of the keep_n_msb calls made.
Branches(a) ==
    LET roc == a.rankset_of_count
        \* flush_suit < 4 exactly when the loop over the suits assigned it
        flush_suits == {s \in 0..3 : a.suit_count[s] >= 5}
        flush_suit == CHOOSE s \in flush_suits : \A t \in flush_suits : t <= s
        is_straight == find_straight(a.rankset)
        calls0 == find_straight_calls(a.rankset)
        is_straight_flush == IF flush_suits # {}
                             THEN find_straight(a.rankset_suit[flush_suit]) ELSE 0
        calls1 == IF flush_suits # {}
                  THEN calls0 \cup find_straight_calls(a.rankset_suit[flush_suit])
                  ELSE calls0
        flush == IF flush_suits # {}
                 THEN Pack(FLUSH, keep_n_msb(a.rankset_suit[flush_suit], 5)) ELSE 0
        calls2 == IF flush_suits # {}
                  THEN calls1 \cup {<<a.rankset_suit[flush_suit], 5>>} ELSE calls1
    IN  IF flush_suits # {} /\ is_straight_flush # 0
          THEN [ev |-> Pack(STRAIGHT_FLUSH, is_straight_flush), early |-> TRUE,
                calls |-> calls1]
        ELSE IF roc[4] # 0
          THEN LET x == BitXor(a.rankset, roc[4])
               IN  [ev |-> Pack(QUADS, BitOr(Shl(roc[4], 14), keep_n_msb(x, 1))),
                    early |-> FALSE, calls |-> calls2 \cup {<<x, 1>>}]
        ELSE IF count_ones(roc[3]) = 2
          THEN LET trips == keep_n_msb(roc[3], 1)
                   pair == BitXor(roc[3], trips)
               IN  [ev |-> Pack(FULL_HOUSE, BitOr(Shl(trips, 13), pair)),
                    early |-> FALSE, calls |-> calls2 \cup {<<roc[3], 1>>}]
        ELSE IF roc[3] # 0 /\ roc[2] # 0
          THEN LET pair == keep_n_msb(roc[2], 1)
               IN  [ev |-> Pack(FULL_HOUSE, BitOr(Shl(roc[3], 13), pair)),
                    early |-> FALSE, calls |-> calls2 \cup {<<roc[2], 1>>}]
        ELSE IF flush # 0
          THEN [ev |-> flush, early |-> FALSE, calls |-> calls2]
        ELSE IF is_straight # 0
          THEN [ev |-> Pack(STRAIGHT, is_straight), early |-> FALSE, calls |-> calls2]
        ELSE IF roc[3] # 0
          THEN [ev |-> Pack(TRIPS, BitOr(Shl(roc[3], 13), keep_n_msb(roc[1], 2))),
                early |-> FALSE, calls |-> calls2 \cup {<<roc[1], 2>>}]
        ELSE IF count_ones(roc[2]) >= 2
          THEN LET pairs == keep_n_msb(roc[2], 2)
                   x == BitXor(a.rankset, pairs)
               IN  [ev |-> Pack(TWO_PAIR, BitOr(Shl(pairs, 13), keep_n_msb(x, 1))),
                    early |-> FALSE,
                    calls |-> calls2 \cup {<<roc[2], 2>>, <<x, 1>>}]
        ELSE IF roc[2] # 0
          THEN [ev |-> Pack(PAIR, BitOr(Shl(roc[2], 13), keep_n_msb(roc[1], 3))),
                early |-> FALSE, calls |-> calls2 \cup {<<roc[1], 3>>}]
        ELSE [ev |-> keep_n_msb(a.rankset, 5), early |-> FALSE,
              calls |-> calls2 \cup {<<a.rankset, 5>>}]

\* the sentinel test on the hand type instead of the evaluation
IsCachedByType(o) == o._hand_type # 0

\* the sentinel test that opens _evaluate_internal
IsCached(o) == o._evaluation # 0

\* a computing run that also stores the cards in the order it went through them
ComputedStoringCards(o, a, b) ==
    [o EXCEPT !._evaluation = b.ev,
              !._hand_type = b.ev \div Pow2[26],
              !.all_cards = o.board_cards \o o.hand_cards]

\* the attribute writes of one computing run of _evaluate_internal over the
\* accounting a and the branch outcome b: the straight flush branch returns
\* right after it stored _evaluation
Computed(o, a, b) ==
    IF b.early
    THEN [o EXCEPT !._evaluation = b.ev]
    ELSE [o EXCEPT !._evaluation = b.ev,
                   !._hand_type = b.ev \div Pow2[26],
                   !._hand_distinguisher = b.ev % Pow2[26],
                   !._rankset = Some(a.rankset),
                   !._rank_count = Some(a.rank_count),
                   !._rankset_suit = Some(a.rankset_suit),
                   !._rankset_of_count = Some(a.rankset_of_count),
                   !._suit_count = Some(a.suit_count),
                   !._hand_rankset = Some(a.hand_rankset),
                   !._hand_rank_count = Some(a.hand_rank_count),
                   !._hand_rankset_suit = Some(a.hand_rankset_suit),
                   !._hand_rankset_of_count = Some(a.hand_rankset_of_count),
                   !._hand_suit_count = Some(a.hand_suit_count),
                   !._board_rankset = Some(a.board_rankset),
                   !._board_rank_count = Some(a.board_rank_count),
                   !._board_rankset_suit = Some(a.board_rankset_suit),
                   !._board_rankset_of_count = Some(a.board_rankset_of_count)]

\* a call of self._evaluate_internal() on an instance with attributes o:
\* the attributes after it, whether the accounting ran, the keep_n_msb calls made
_evaluate_internal(o) ==
    IF IsCached(o)
    THEN [o |-> o, ran |-> FALSE, calls |-> {}]
    ELSE LET a == Accounting(o)
             b == Branches(a)
         IN  [o |-> Computed(o, a, b), ran |-> TRUE, calls |-> b.calls]


----------------------------------------------------------------------------
(* StraightDrawMasks. *)

oesd_5_card_masks == {15}
double_gutter_7_card_masks == {221, 93, 219}
gutshot_5_card_masks == {23, 27, 29}
a_high_broadway_13_card_masks == {7680, 7424, 6912, 5888}
a_high_wheel_13_card_masks == {4110, 4109, 4107, 4103}
backdoor_4_5_high_masks == {7, 11, 13, 14}
backdoor_wheel_masks == {4099, 4101, 4102, 4105, 4106, 4108}
\* itertools.combinations(range(4), 2): bit 4 and two of the four bits below it
backdoor_5_card_masks ==
    {Shl(1, 4) + Shl(1, p[1]) + Shl(1, p[2]) :
        p \in {q \in (0..3) \X (0..3) : q[1] < q[2]}}

\* the hole ranks of a window counted without taking the board ranks out
NumHandRanksBoardToo(hand_ranks, board_ranks, window) ==
    count_ones(BitAnd(hand_ranks, window))

\* count_ones((hand_ranks & window) & ~board_ranks): the hole ranks of a window
\* that are not board ranks, counted
NumHandRanks(hand_ranks, board_ranks, window) ==
    count_ones(BitAndNot(BitAnd(hand_ranks, window), board_ranks))

\* the first loop of categorize recording every gutshot match over the one
\* recorded before it, so that the last match of the scan is the fallback
RECURSIVE EightOutScanKeepLast(_, _, _, _, _)
EightOutScanKeepLast(rankset, board_rankset, hand_rankset, offset, gutshot) ==
    IF offset < 0 THEN [done |-> FALSE, gutshot |-> gutshot]
    ELSE
      LET ranks == Shr(rankset, offset)
          board_ranks == Shr(board_rankset, offset)
          hand_ranks == Shr(hand_rankset, offset)
          num_hand_ranks_5_card_window == NumHandRanks(hand_ranks, board_ranks, 31)
          num_hand_ranks_7_card_window == NumHandRanks(hand_ranks, board_ranks, 255)
      IN  IF /\ num_hand_ranks_7_card_window > 0
             /\ \/ BitAnd(ranks, 127) \in double_gutter_7_card_masks
                \/ BitAnd(ranks, 255) \in double_gutter_7_card_masks
            THEN [done |-> TRUE,
                  res |-> <<"DOUBLE_GUTTER", num_hand_ranks_7_card_window>>]
          ELSE IF /\ num_hand_ranks_5_card_window > 0
                  /\ BitAnd(ranks, 31) \in oesd_5_card_masks
            THEN [done |-> TRUE, res |-> <<"OESD", num_hand_ranks_5_card_window>>]
          ELSE EightOutScanKeepLast(rankset, board_rankset, hand_rankset, offset - 1,
                 IF BitAnd(ranks, 31) \in gutshot_5_card_masks
                 THEN Some(<<"GUTSHOT", num_hand_ranks_5_card_window>>)
                 ELSE gutshot)

\* the first loop of categorize from this offset down to 0; gutshot is the
\* recorded fallback.  done tells a return from inside the loop.
RECURSIVE EightOutScan(_, _, _, _, _)
EightOutScan(rankset, board_rankset, hand_rankset, offset, gutshot) ==
    IF offset < 0 THEN [done |-> FALSE, gutshot |-> gutshot]
    ELSE
      LET ranks == Shr(rankset, offset)
          board_ranks == Shr(board_rankset, offset)
          hand_ranks == Shr(hand_rankset, offset)
          num_hand_ranks_5_card_window == NumHandRanks(hand_ranks, board_ranks, 31)
          num_hand_ranks_7_card_window == NumHandRanks(hand_ranks, board_ranks, 255)
      IN  IF /\ num_hand_ranks_7_card_window > 0
             /\ \/ BitAnd(ranks, 127) \in double_gutter_7_card_masks
                \/ BitAnd(ranks, 255) \in double_gutter_7_card_masks
            THEN [done |-> TRUE,
                  res |-> <<"DOUBLE_GUTTER", num_hand_ranks_7_card_window>>]
          ELSE IF /\ num_hand_ranks_5_card_window > 0
                  /\ BitAnd(ranks, 31) \in oesd_5_card_masks
            THEN [done |-> TRUE, res |-> <<"OESD", num_hand_ranks_5_card_window>>]
          ELSE EightOutScan(rankset, board_rankset, hand_rankset, offset - 1,
                 IF gutshot = None /\ BitAnd(ranks, 31) \in gutshot_5_card_masks
                 THEN Some(<<"GUTSHOT", num_hand_ranks_5_card_window>>)
                 ELSE gutshot)

\* the backdoor loop of categorize from this offset down to 0
RECURSIVE BackdoorScan(_, _, _, _)
BackdoorScan(rankset, board_rankset, hand_rankset, offset) ==
    IF offset < 0 THEN None
    ELSE
      LET ranks == Shr(rankset, offset)
          n == NumHandRanks(Shr(hand_rankset, offset), Shr(board_rankset, offset), 31)
      IN  IF BitAnd(ranks, 31) \in backdoor_5_card_masks /\ n > 0
            THEN Some(<<"3_STRAIGHT", n>>)
          ELSE BackdoorScan(rankset, board_rankset, hand_rankset, offset - 1)

\* the two ace-anchored draws categorize records before its loops
AceAnchored(rankset, board_rankset, hand_rankset) ==
    LET ace == BitAnd(rankset, Shl(1, 12)) # 0
        broadway == BitAnd(rankset, 7936) \in a_high_broadway_13_card_masks
    IN  [a_high_broadway |->
            IF ace /\ broadway
            THEN Some(<<"A_HIGH_BROADWAY", NumHandRanks(hand_rankset, board_rankset, 7936)>>)
            ELSE None,
         a_high_wheel |->
            IF ace /\ ~broadway /\ BitAnd(rankset, 4111) \in a_high_wheel_13_card_masks
            THEN Some(<<"A_HIGH_WHEEL", NumHandRanks(hand_rankset, board_rankset, 4111)>>)
            ELSE None]

\* what categorize returns after its two loops found nothing to return
BackdoorLow(rankset, board_rankset, hand_rankset) ==
    IF BitAnd(rankset, 4111) \in backdoor_wheel_masks
      THEN <<"3_WHEEL", NumHandRanks(hand_rankset, board_rankset, 4111)>>
    ELSE IF BitAnd(rankset, 15) \in backdoor_4_5_high_masks
      THEN <<"3_STRAIGHT", NumHandRanks(hand_rankset, board_rankset, 15)>>
    ELSE <<"NO_STRAIGHT_DRAW", 0>>

\* categorize with the recorded gutshot returned ahead of the ace-anchored draws
categorize_gutshot_first(rankset, board_rankset, hand_rankset) ==
    LET aa == AceAnchored(rankset, board_rankset, hand_rankset)
        scan == EightOutScan(rankset, board_rankset, hand_rankset, 13 - 5, None)
        backdoor == BackdoorScan(rankset, board_rankset, hand_rankset, 13 - 5)
    IN  IF scan.done THEN scan.res
        ELSE IF scan.gutshot # None THEN scan.gutshot[1]
        ELSE IF aa.a_high_broadway # None THEN aa.a_high_broadway[1]
        ELSE IF aa.a_high_wheel # None THEN aa.a_high_wheel[1]
        ELSE IF backdoor # None THEN backdoor[1]
        ELSE BackdoorLow(rankset, board_rankset, hand_rankset)

\* StraightDrawMasks.categorize over the three ranksets of an evaluated hand
categorize(rankset, board_rankset, hand_rankset) ==
    LET aa == AceAnchored(rankset, board_rankset, hand_rankset)
        scan == EightOutScan(rankset, board_rankset, hand_rankset, 13 - 5, None)
        backdoor == BackdoorScan(rankset, board_rankset, hand_rankset, 13 - 5)
    IN  IF scan.done THEN scan.res
        ELSE IF aa.a_high_broadway # None THEN aa.a_high_broadway[1]
        ELSE IF aa.a_high_wheel # None THEN aa.a_high_wheel[1]
        ELSE IF scan.gutshot # None THEN scan.gutshot[1]
        ELSE IF backdoor # None THEN backdoor[1]
        ELSE BackdoorLow(rankset, board_rankset, hand_rankset)

----------------------------------------------------------------------------
(* FlushDraws. *)

\* hand.get_hand_suit_ranksets() is called by FlushDraws.categorize and defined
\* nowhere in the sources: the per-suit ranksets of the hole cards, read the
\* way get_suit_ranksets reads them for all the cards
get_hand_suit_ranksets(o) == o._hand_rankset_suit

\* the locals of FlushDraws.categorize before its loop over the suits
FlushLocals == [max_suit_count |-> 0, max_suit |-> -1, second_max_suit |-> -1,
                num_cards |-> 0]

\* the loop over the suits that also takes a suit no hole card is of
RECURSIVE FlushSuitLoopNoSkip(_, _, _, _)
FlushSuitLoopNoSkip(suit_counts, hand_suit_ranksets, suit, st) ==
    IF suit = 4 THEN st
    ELSE LET count == suit_counts[suit]
             n_cards == count_ones(hand_suit_ranksets[suit])
             taken == [st EXCEPT !.num_cards = n_cards,
                                 !.max_suit_count = count,
                                 !.max_suit = suit]
         IN  IF count >= 3 /\ count > st.max_suit_count
               THEN IF count = 5 \/ count = 4 \/ n_cards = 2 THEN taken
                    ELSE FlushSuitLoopNoSkip(suit_counts, hand_suit_ranksets,
                                             suit + 1, taken)
             ELSE IF count = st.max_suit_count /\ st.max_suit_count = 3
               THEN FlushSuitLoopNoSkip(suit_counts, hand_suit_ranksets, suit + 1,
                        [st EXCEPT !.num_cards = n_cards, !.second_max_suit = suit])
             ELSE FlushSuitLoopNoSkip(suit_counts, hand_suit_ranksets, suit + 1, st)

\* for suit, count in enumerate(suit_counts), from suit on with the locals st:
\* the locals when the loop ends or breaks
RECURSIVE FlushSuitLoop(_, _, _, _)
FlushSuitLoop(suit_counts, hand_suit_ranksets, suit, st) ==
    IF suit = 4 THEN st
    ELSE LET count == suit_counts[suit]
             n_cards == count_ones(hand_suit_ranksets[suit])
             taken == [st EXCEPT !.num_cards = n_cards,
                                 !.max_suit_count = count,
                                 !.max_suit = suit]
         IN  IF count >= 3 /\ count > st.max_suit_count
               THEN IF n_cards = 0
                      THEN FlushSuitLoop(suit_counts, hand_suit_ranksets, suit + 1, st)
                    ELSE IF count = 5 \/ count = 4 \/ n_cards = 2 THEN taken
                    ELSE FlushSuitLoop(suit_counts, hand_suit_ranksets, suit + 1, taken)
             ELSE IF count = st.max_suit_count /\ st.max_suit_count = 3
               THEN IF n_cards = 0
                      THEN FlushSuitLoop(suit_counts, hand_suit_ranksets, suit + 1, st)
                    ELSE FlushSuitLoop(suit_counts, hand_suit_ranksets, suit + 1,
                             [st EXCEPT !.num_cards = n_cards,
                                        !.second_max_suit = suit])
             ELSE FlushSuitLoop(suit_counts, hand_suit_ranksets, suit + 1, st)

\* the loop over the flags that steps the index on the ranks the suit holds
RECURSIVE StrengthLoopOverPresent(_, _, _, _)
StrengthLoopOverPresent(rs, hrs, flag, card_strength_index) ==
    IF flag > 0
    THEN LET f == Shr(flag, 1)
         IN  IF BitAnd(hrs, f) # 0 THEN card_strength_index + 1
             ELSE IF BitAnd(rs, f) # 0
               THEN StrengthLoopOverPresent(rs, hrs, f, card_strength_index + 1)
             ELSE StrengthLoopOverPresent(rs, hrs, f, card_strength_index)
    ELSE -1

\* while flag > 0, entered with flag and card_strength_index: the value of
\* highest_draw_contributing_card_in_hand after the loop
RECURSIVE StrengthLoop(_, _, _, _)
StrengthLoop(rs, hrs, flag, card_strength_index) ==
    IF flag > 0
    THEN LET f == Shr(flag, 1)
         IN  IF BitAnd(rs, f) # 0
               THEN IF BitAnd(hrs, f) # 0 THEN card_strength_index + 1
                    ELSE StrengthLoop(rs, hrs, f, card_strength_index)
             ELSE StrengthLoop(rs, hrs, f, card_strength_index + 1)
    ELSE -1

\* the tuple of labels shifted by one place
fd_type_shifted(max_suit_count) ==
    <<"", "", "", "", "3_FLUSH", "FLUSH_DRAW", "FLUSH", "FLUSH", "FLUSH",
      "FLUSH">>[max_suit_count + 1]

\* the tuple of labels indexed by max_suit_count
fd_type(max_suit_count) ==
    <<"", "", "", "3_FLUSH", "FLUSH_DRAW", "FLUSH", "FLUSH", "FLUSH", "FLUSH",
      "FLUSH">>[max_suit_count + 1]

\* categorize entering the loop over the flags at the king
FlushCategorizeFromKing(suit_counts, suit_ranksets, hand_suit_ranksets) ==
    LET st == FlushSuitLoop(suit_counts, hand_suit_ranksets, 0, FlushLocals)
    IN  IF st.max_suit_count < 3 THEN <<"NO_FLUSH_DRAW", 0, -1>>
        ELSE <<fd_type(st.max_suit_count), st.num_cards,
               StrengthLoop(suit_ranksets[st.max_suit],
                            hand_suit_ranksets[st.max_suit], Shl(1, 12), 0)>>

\* FlushDraws.categorize over the tuples the getters returned
FlushCategorize(suit_counts, suit_ranksets, hand_suit_ranksets) ==
    LET st == FlushSuitLoop(suit_counts, hand_suit_ranksets, 0, FlushLocals)
    IN  IF st.max_suit_count < 3 THEN <<"NO_FLUSH_DRAW", 0, -1>>
        ELSE <<fd_type(st.max_suit_count), st.num_cards,
               StrengthLoop(suit_ranksets[st.max_suit],
                            hand_suit_ranksets[st.max_suit], Shl(1, 13), 0)>>

----------------------------------------------------------------------------
(* HandCategorizer. *)

POCKET_PAIR == 0
BOARD_PAIR == 1
REGULAR_PAIR == 2

\* The accounting of the board cards alone, read from the saved attributes.
BoardAccounting(o) ==
    [rankset |-> o._board_rankset[1],
     rankset_suit |-> o._board_rankset_suit[1],
     rankset_of_count |-> o._board_rankset_of_count[1],
     suit_count |-> [s \in 0..3 |-> count_ones(o._board_rankset_suit[1][s])]]

\* hand._board_type is read by HandCategorizer and by the tests and assigned
\* nowhere in the sources: the hand type of the board cards alone, as the
\* branches of the evaluation give it, present once the accounting is saved
_board_type(o) ==
    IF o._board_rankset = None THEN None
    ELSE Some(Branches(BoardAccounting(o)).ev \div Pow2[26])

\* the locals of get_pair_category before its loop
PairLocals == [board_cards_seen |-> 0, kicker_count |-> 0, kicker |-> None,
               pair_type |-> None, pair_strength |-> None]

\* the first statement counting the kicker over the board ranks too
KickerStepOverBoard(hrc, brc, st) ==
    LET seen == IF brc > 0 THEN [st EXCEPT !.board_cards_seen = @ + 1] ELSE st
    IN  IF seen.kicker = None
          THEN [seen EXCEPT !.kicker_count = @ + 1,
                            !.kicker = IF hrc > 0 /\ brc = 0
                                       THEN Some(st.kicker_count + 1) ELSE None]
        ELSE seen

\* the first statement of the loop body: the board ranks seen, the kicker
KickerStep(hrc, brc, st) ==
    IF brc > 0 THEN [st EXCEPT !.board_cards_seen = @ + 1]
    ELSE IF st.kicker = None
      THEN [st EXCEPT !.kicker_count = @ + 1,
                      !.kicker = IF hrc > 0 THEN Some(st.kicker_count + 1) ELSE None]
    ELSE st

\* the second statement without the test for a board pair
PairTypeStepNoBoard(hrc, brc, rc, st) ==
    IF rc = 2
    THEN IF hrc = 2
           THEN [st EXCEPT !.pair_type = Some(POCKET_PAIR),
                           !.pair_strength = Some(st.board_cards_seen),
                           !.kicker = Some(0)]
         ELSE [st EXCEPT !.pair_type = Some(REGULAR_PAIR),
                         !.pair_strength = Some(st.board_cards_seen)]
    ELSE st

\* the second statement of the loop body: the type of the pair at a rank held twice
PairTypeStep(hrc, brc, rc, st) ==
    IF rc = 2
    THEN IF brc = 2
           THEN IF st.pair_type = None
                  THEN [st EXCEPT !.pair_type = Some(BOARD_PAIR),
                                  !.pair_strength = Some(st.board_cards_seen)]
                ELSE st
         ELSE IF hrc = 2
           THEN [st EXCEPT !.pair_type = Some(POCKET_PAIR),
                           !.pair_strength = Some(st.board_cards_seen),
                           !.kicker = Some(0)]
         ELSE [st EXCEPT !.pair_type = Some(REGULAR_PAIR),
                         !.pair_strength = Some(st.board_cards_seen)]
    ELSE st

\* for hrc, brc, rc in zip of the reversed rank counts, from rank r down
RECURSIVE PairLoop(_, _, _, _, _)
PairLoop(hand_rank_count, board_rank_count, rank_count, r, st) ==
    IF r < 0 THEN st
    ELSE PairLoop(hand_rank_count, board_rank_count, rank_count, r - 1,
             PairTypeStep(hand_rank_count[r], board_rank_count[r], rank_count[r],
                 KickerStep(hand_rank_count[r], board_rank_count[r], st)))

\* the test that opens get_pair_category; `and` reads _board_type only when
\* the hand type matched
PairCategoryApplies(o) ==
    \/ o._hand_type = PAIR
    \/ o._hand_type = TWO_PAIR /\ _board_type(o) = Some(PAIR)
    \/ o._hand_type = FULL_HOUSE /\ _board_type(o) = Some(TRIPS)

\* HandCategorizer.get_pair_category(hand): None, or the tuple
\* (pair_type, pair_strength, kicker) whose components may be None
get_pair_category(o) ==
    IF ~PairCategoryApplies(o) THEN None
    ELSE LET st == PairLoop(o._hand_rank_count[1], o._board_rank_count[1],
                            o._rank_count[1], 12, PairLocals)
         IN  <<st.pair_type, st.pair_strength, st.kicker>>

\* the locals of get_high_card_category before its loop
HighCardLocals == [board_cards_seen |-> 0, top_card |-> None, bottom_card |-> None]

\* the loop that stores the board ranks seen plus one, a 1-indexed position
RECURSIVE HighCardLoopOneIndexed(_, _, _, _)
HighCardLoopOneIndexed(hand_rank_count, board_rank_count, r, st) ==
    IF r < 0 THEN None
    ELSE IF board_rank_count[r] > 0
      THEN HighCardLoopOneIndexed(hand_rank_count, board_rank_count, r - 1,
               [st EXCEPT !.board_cards_seen = @ + 1])
    ELSE IF hand_rank_count[r] > 0
      THEN IF st.top_card = None
             THEN HighCardLoopOneIndexed(hand_rank_count, board_rank_count, r - 1,
                      [st EXCEPT !.top_card = Some(st.board_cards_seen + 1)])
           ELSE IF st.bottom_card = None
             THEN <<st.top_card[1], st.board_cards_seen + 1>>
           ELSE HighCardLoopOneIndexed(hand_rank_count, board_rank_count, r - 1, st)
    ELSE HighCardLoopOneIndexed(hand_rank_count, board_rank_count, r - 1, st)

\* for hrc, brc, rc in zip of the reversed rank counts, from rank r down: the
\* value returned, None when the loop ends
RECURSIVE HighCardLoop(_, _, _, _)
HighCardLoop(hand_rank_count, board_rank_count, r, st) ==
    IF r < 0 THEN None
    ELSE IF board_rank_count[r] > 0
      THEN HighCardLoop(hand_rank_count, board_rank_count, r - 1,
               [st EXCEPT !.board_cards_seen = @ + 1])
    ELSE IF hand_rank_count[r] > 0
      THEN IF st.top_card = None
             THEN HighCardLoop(hand_rank_count, board_rank_count, r - 1,
                      [st EXCEPT !.top_card = Some(st.board_cards_seen)])
           ELSE IF st.bottom_card = None
             THEN <<st.top_card[1], st.board_cards_seen>>
           ELSE HighCardLoop(hand_rank_count, board_rank_count, r - 1, st)
    ELSE HighCardLoop(hand_rank_count, board_rank_count, r - 1, st)

\* the test that opens get_high_card_category
HighCardCategoryApplies(o) ==
    _board_type(o) = Some(o._hand_type) /\ o._hand_type < TRIPS

\* The ranks of the groups that play in a hand made of pairs, trips or quads:
\* the pair, the two highest pairs, the trips, the trips and the best pair
\* beside them, the quads.
PlayingRanks(rank_count, hand_type) ==
    LET Held(n) == {r \in 0..12 : rank_count[r] = n}
        Top(S) == CHOOSE r \in S : \A q \in S : q <= r
    IN  CASE hand_type = PAIR -> Held(2)
          [] hand_type = TWO_PAIR -> {Top(Held(2)), Top(Held(2) \ {Top(Held(2))})}
          [] hand_type = TRIPS -> Held(3)
          [] hand_type = FULL_HOUSE ->
                {Top(Held(3)), Top((Held(2) \cup Held(3)) \ {Top(Held(3))})}
          [] hand_type = QUADS -> Held(4)
          [] OTHER -> {}

\* the hand type as it is, with no regard to the board
board_adjusted_plain(o) == o._hand_type

\* hand.board_adjusted_hand_type() is called by the tests and by
\* SpotData._compute_hands_df and defined nowhere in the sources.  From the
\* highest rank down the groups that play are compared with the board: when no
\* hole card is in them the hand plays the board (HIGH_CARD); a TWO_PAIR with
\* one pair of the hole cards beside the board's only pair is a PAIR; else the
\* hand type stands.
board_adjusted_hand_type(o) ==
    LET played == PlayingRanks(o._rank_count[1], o._hand_type)
        by_hole == {r \in played : o._hand_rank_count[1][r] > 0}
    IN  IF by_hole = {}
          THEN IF _board_type(o) = Some(o._hand_type) THEN HIGH_CARD ELSE o._hand_type
        ELSE IF /\ o._hand_type = TWO_PAIR
                /\ _board_type(o) = Some(PAIR)
                /\ Cardinality(by_hole) = 1
          THEN PAIR
        ELSE o._hand_type

----------------------------------------------------------------------------
(* Inputs. *)

Card(rank, suit) == 4 * rank + suit

\* the order the decks of the specifications are cut from:
\* Ac 2c 3c 4c 5c 5d 6c Ad | Ah As 2d 2h | Kd Kh 6d 3d
DeckOrder == <<Card(12, 0), Card(0, 0), Card(1, 0), Card(2, 0), Card(3, 0),
               Card(3, 1), Card(4, 0), Card(12, 1), Card(12, 2),
               Card(12, 3), Card(0, 1), Card(0, 2),
               Card(11, 1), Card(11, 2), Card(4, 1), Card(1, 1)>>

Deck(n) == {DeckOrder[k] : k \in 1..n}

\* the cards of a set in ascending order
RECURSIVE SortedSeq(_)
SortedSeq(S) == IF S = {} THEN << >>
                ELSE LET c == CHOOSE x \in S : \A y \in S : x <= y
                     IN  <<c>> \o SortedSeq(S \ {c})

\* the string of a list of cards
RECURSIVE CardsStr(_)
CardsStr(cards) == IF cards = << >> THEN << >>
                   ELSE card_to_str(Head(cards)) \o CardsStr(Tail(cards))

BoardSizes == {0, 3, 4, 5}

NoCall == [inst |-> 0, op |-> "none", arg |-> 0, cached |-> FALSE, raised |-> "", val |-> 0]

\* one fresh instance Hand(hole, board) of the cards given as sets, no call made yet
Constructed(hole, board) ==
    /\ obj = [i \in {1} |-> HandInit(CardsStr(SortedSeq(hole)), CardsStr(SortedSeq(board)))]
    /\ ret = NoCall
    /\ msb_args = {}
    /\ accountings = [i \in {1} |-> 0]

\* the valid hands over a deck: two hole cards, a board of 0, 3, 4 or 5 cards
\* that shares none
InitOver(deck) ==
    \E hole \in {h \in SUBSET deck : Cardinality(h) = 2} :
        \E board \in {b \in SUBSET (deck \ hole) : Cardinality(b) \in BoardSizes} :
            Constructed(hole, board)

Init == InitOver(Deck(DeckSize))

InitEval == InitOver(Deck(EvalDeckSize))

\* the cards two players are dealt from at a showdown: the aces and the kings
CompareDeck == {Card(r, su) : r \in {11, 12}, su \in 0..3}

\* two instances on one board of 3, 4 or 5 cards
InitCompare ==
    /\ \E b \in {x \in SUBSET CompareDeck : Cardinality(x) \in BoardSizes \ {0}} :
       \E h1, h2 \in {x \in SUBSET (CompareDeck \ b) : Cardinality(x) = 2} :
         obj = [i \in {1, 2} |->
                  HandInit(CardsStr(SortedSeq(IF i = 1 THEN h1 ELSE h2)),
                           CardsStr(SortedSeq(b)))]
    /\ ret = NoCall
    /\ msb_args = {}
    /\ accountings = [i \in {1, 2} |-> 0]

\* The hands the draw classifier is run on: every pair of hole ranks against
\* every set of one to five board ranks, dealt in suits that make no flush
\* (hole cards in clubs and diamonds, board cards in hearts and spades by turns;
\* a board of one or two ranks repeats its lowest rank to fill three cards).
DrawBoard(r1, B) ==
    LET lo == CHOOSE r \in B : \A q \in B : r <= q
    IN  IF Cardinality(B) >= 3
          THEN {Card(r, 2 + (Cardinality({q \in B : q < r}) % 2)) : r \in B}
        ELSE IF Cardinality(B) = 2
          THEN {Card(r, 2) : r \in B} \cup {Card(lo, 3)}
        ELSE {Card(lo, 2), Card(lo, 3), Card(lo, IF r1 = lo THEN 1 ELSE 0)}

InitDraw ==
    \E r1, r2 \in 0..12 :
        /\ r1 <= r2
        /\ \E B \in {X \in SUBSET (0..12) : Cardinality(X) \in 1..MaxBoardRanks} :
              /\ ~(r1 = r2 /\ B = {r1})
              /\ Constructed({Card(r1, 0), Card(r2, 1)}, DrawBoard(r1, B))

\* Two instances on one board: the hole cards of the second are those of the
\* first with one card replaced by a card of its suit and of a higher rank that
\* is not in the hand.
InitRaise ==
    /\ \E low, high \in Deck(RaiseDeckSize) :
         /\ low % 4 = high % 4
         /\ low \div 4 < high \div 4
         /\ \E other \in Deck(RaiseDeckSize) \ {low, high} :
            \E b \in {x \in SUBSET (Deck(RaiseDeckSize) \ {low, high, other}) :
                         Cardinality(x) \in BoardSizes} :
              obj = [i \in {1, 2} |->
                       HandInit(CardsStr(SortedSeq({IF i = 1 THEN low ELSE high, other})),
                                CardsStr(SortedSeq(b)))]
    /\ ret = NoCall
    /\ msb_args = {}
    /\ accountings = [i \in {1, 2} |-> 0]

\* the order the deck of the flush draw classifier is cut from:
\* As 2s 3s 4s 5s Qs 9s | Kd 9d 3d | Qc | 2c
FlushDeckOrder == <<Card(12, 3), Card(0, 3), Card(1, 3), Card(2, 3), Card(3, 3),
                    Card(10, 3), Card(7, 3), Card(11, 1), Card(7, 1), Card(1, 1),
                    Card(10, 0), Card(0, 0)>>

InitFlush == InitOver({FlushDeckOrder[k] : k \in 1..FlushDeckSize})

\* the order the deck of the pair categories is cut from:
\* 2c 2d 2h 5c 5d 5h Kh 9s Ac Ad | Kd
PairDeckOrder == <<Card(0, 0), Card(0, 1), Card(0, 2), Card(3, 0), Card(3, 1),
                   Card(3, 2), Card(11, 2), Card(7, 3), Card(12, 0), Card(12, 1),
                   Card(11, 1)>>

InitPair == InitOver({PairDeckOrder[k] : k \in 1..PairDeckSize})

----------------------------------------------------------------------------
(* Calls. *)

\* instance i makes a call that starts with self._evaluate_internal(), whose
\* outcome is e
Evaluates(i, e) ==
    /\ obj' = [obj EXCEPT ![i] = e.o]
    /\ msb_args' = IF e.ran THEN e.calls ELSE msb_args
    /\ accountings' = [accountings EXCEPT ![i] =
                         IF e.ran /\ @ < AccountingCap THEN @ + 1 ELSE @]

\* the outcome of a call: cached tells that its _evaluate_internal returned the
\* stored value at once
Result(i, op, arg, e, val) ==
    [inst |-> i, op |-> op, arg |-> arg, cached |-> ~e.ran, raised |-> "", val |-> val]
Raised(i, op, arg, e, exc) ==
    [inst |-> i, op |-> op, arg |-> arg, cached |-> ~e.ran, raised |-> exc, val |-> 0]

\* h._evaluate_internal()
EvaluateInternal(i) ==
    \E e \in {_evaluate_internal(obj[i])} :
        /\ Evaluates(i, e)
        /\ ret' = Result(i, "_evaluate_internal", 0, e, e.o._evaluation)

\* h.is_straight_flush(), ..., h.is_high_card(): t is the type the predicate tests
IsHandType(i, t) ==
    \E e \in {_evaluate_internal(obj[i])} :
        /\ Evaluates(i, e)
        /\ ret' = Result(i, "is", t, e, e.o._hand_type = t)

\* the accessors that return the attribute as it is
PlainGetters == {"get_rankset", "get_hand_rankset", "get_board_rankset"}
\* the accessors that return tuple(attribute): tuple(None) raises
TupleGetters == {"get_suit_count", "get_hand_suit_count", "get_suit_ranksets"}

GetterAttr(o, g) ==
    CASE g = "get_rankset" -> o._rankset
      [] g = "get_hand_rankset" -> o._hand_rankset
      [] g = "get_board_rankset" -> o._board_rankset
      [] g = "get_suit_count" -> o._suit_count
      [] g = "get_hand_suit_count" -> o._hand_suit_count
      [] g = "get_suit_ranksets" -> o._rankset_suit

\* h.get_rankset(), ..., h.get_suit_ranksets().  _hand_suit_count is not set by
\* __init__: while it is unset, reading it raises AttributeError.
Getter(i, g) ==
    \E e \in {_evaluate_internal(obj[i])} :
        /\ Evaluates(i, e)
        /\ ret' = LET v == GetterAttr(e.o, g)
                  IN  IF g \in PlainGetters THEN Result(i, g, 0, e, v)
                      ELSE IF v # None THEN Result(i, g, 0, e, v)
                      ELSE IF g = "get_hand_suit_count"
                        THEN Raised(i, g, 0, e, "AttributeError")
                      ELSE Raised(i, g, 0, e, "TypeError")

\* h.get_board_suit_count(): no code assigns _board_suit_count
GetBoardSuitCount(i) ==
    \E e \in {_evaluate_internal(obj[i])} :
        /\ Evaluates(i, e)
        /\ ret' = Raised(i, "get_board_suit_count", 0, e, "AttributeError")

\* StraightDrawMasks.categorize(h): the getters evaluate; a None rankset makes
\* rankset & 1 << 12 raise
StraightDrawCategorize(i) ==
    \E e \in {_evaluate_internal(obj[i])} :
        /\ Evaluates(i, e)
        /\ ret' = IF e.o._rankset = None
                  THEN Raised(i, "StraightDrawMasks.categorize", 0, e, "TypeError")
                  ELSE Result(i, "StraightDrawMasks.categorize", 0, e,
                              categorize(e.o._rankset[1], e.o._board_rankset[1],
                                         e.o._hand_rankset[1]))

Next ==
    \E i \in DOMAIN obj :
        \/ EvaluateInternal(i)
        \/ \E t \in 0..8 : IsHandType(i, t)
        \/ \E g \in PlainGetters \cup TupleGetters : Getter(i, g)
        \/ GetBoardSuitCount(i)
        \/ StraightDrawCategorize(i)

Spec == Init /\ [][Next]_vars

\* hand(hand, board, evaluate=True): the first evaluation of a fresh instance
HandEvaluate(i) == accountings[i] = 0 /\ EvaluateInternal(i)

\* straight_draw_type(hole, board) of the tests: categorize on a fresh instance
StraightDrawType(i) == accountings[i] = 0 /\ StraightDrawCategorize(i)

NextEval == \E i \in DOMAIN obj : HandEvaluate(i)

SpecEval == InitEval /\ [][NextEval]_vars

SpecCompare == InitCompare /\ [][NextEval]_vars

SpecRaise == InitRaise /\ [][NextEval]_vars

\* no Hand is constructed: the module-level functions are called on their own
InitCodec ==
    /\ obj = << >>
    /\ ret = NoCall
    /\ msb_args = {}
    /\ accountings = << >>

\* characters of the tokens handed to card_from_str
TokenChars == {"A", "2", "c", "s", "x", "t"}

\* the tokens of SpecToken: every string of at most MaxTokenLen characters
Tokens == UNION {[1..n -> TokenChars] : n \in 0..MaxTokenLen}

\* card_from_str(c)
CardFromStr(c) ==
    /\ \E e \in {card_from_str_raises(c)} :
         ret' = IF e = ""
                THEN [NoCall EXCEPT !.op = "card_from_str", !.arg = c, !.val = card_from_str(c)]
                ELSE [NoCall EXCEPT !.op = "card_from_str", !.arg = c, !.raised = e]
    /\ UNCHANGED <<obj, msb_args, accountings>>

\* card_to_str(c)
CardToStr(c) ==
    /\ ret' = [NoCall EXCEPT !.op = "card_to_str", !.arg = c, !.val = card_to_str(c)]
    /\ UNCHANGED <<obj, msb_args, accountings>>

\* card_to_str(card_from_str(c))
StrRoundTrip(c) ==
    /\ ret' = [NoCall EXCEPT !.op = "card_to_str(card_from_str)", !.arg = c,
                             !.val = card_to_str(card_from_str(c))]
    /\ UNCHANGED <<obj, msb_args, accountings>>

\* card_from_str(card_to_str(c))
CardRoundTrip(c) ==
    /\ ret' = [NoCall EXCEPT !.op = "card_from_str(card_to_str)", !.arg = c,
                             !.val = card_from_str(card_to_str(c))]
    /\ UNCHANGED <<obj, msb_args, accountings>>

NextCodec ==
    \/ \E c \in CardStrings : CardFromStr(c) \/ StrRoundTrip(c)
    \/ \E c \in Cards : CardToStr(c) \/ CardRoundTrip(c)

SpecCodec == InitCodec /\ [][NextCodec]_vars

\* the cards the constructor is handed: those of test_hands.py 30-31
ConstructDeckOrder == <<Card(12, 3), Card(8, 1), Card(9, 2), Card(11, 2),
                        Card(1, 1), Card(0, 0), Card(7, 3)>>

\* h = Hand(hand, board): any one to three hole cards with any board of up to
\* six cards, a card of the hole allowed on the board as well
Construct(hand, board) ==
    /\ obj = << >>
    /\ obj' = [i \in {1} |-> HandInit(hand, board)]
    /\ ret' = [NoCall EXCEPT !.inst = 1, !.op = "Hand", !.arg = <<hand, board>>]
    /\ accountings' = [i \in {1} |-> 0]
    /\ UNCHANGED msb_args

NextConstruct ==
    \/ \E h, b \in SUBSET {ConstructDeckOrder[k] : k \in 1..ConstructDeckSize} :
          /\ Cardinality(h) \in 1..3
          /\ Cardinality(b) \in 0..6
          /\ Construct(CardsStr(SortedSeq(h)), CardsStr(SortedSeq(b)))
    \/ \E i \in DOMAIN obj : HandEvaluate(i)

SpecConstruct == InitCodec /\ [][NextConstruct]_vars

(* Two callers on one instance: each runs the statements of its call in
   order, and the statements of the two interleave. *)

Threads == {1, 2}

\* a caller outside any call
Idle == [pc |-> "idle", op |-> "none", arg |-> 0, cached |-> FALSE,
         settled |-> FALSE, val |-> 0]

RaceDeckOrder == <<Card(0, 0), Card(1, 0), Card(2, 0), Card(3, 0), Card(4, 0),
                   Card(4, 1), Card(11, 2)>>

\* one fresh instance on a board of three cards, both callers outside any call
InitRace ==
    /\ \E hole \in {h \in SUBSET {RaceDeckOrder[k] : k \in 1..RaceDeckSize} :
                       Cardinality(h) = 2} :
         \E board \in {b \in SUBSET ({RaceDeckOrder[k] : k \in 1..RaceDeckSize} \ hole) :
                          Cardinality(b) = 3} :
            obj = [i \in {1} |-> HandInit(CardsStr(SortedSeq(hole)), CardsStr(SortedSeq(board)))]
    /\ ret = [t \in Threads |-> Idle]
    /\ msb_args = {}
    /\ accountings = [i \in {1} |-> 0]

\* a computing run has returned: its last write is in place, the store of
\* _evaluation in the straight flush branch and that of the fields otherwise
Complete(o) ==
    /\ o._evaluation # 0
    /\ \/ o._rank_count # None
       \/ o._evaluation \div Pow2[26] = STRAIGHT_FLUSH

\* caller t enters is_high_card(), is_pair() or get_rankset(), about to call
\* _evaluate_internal
RaceCall(t, c) ==
    /\ ret[t].pc = "idle"
    /\ ret' = [ret EXCEPT ![t] = [Idle EXCEPT !.pc = "test", !.op = c[1], !.arg = c[2]]]
    /\ UNCHANGED <<obj, msb_args, accountings>>

\* the sentinel test that ignores the stored value
RaceTestNoCache(t) ==
    /\ ret[t].pc = "test"
    /\ \E b \in {Branches(Accounting(obj[1]))} :
         /\ ret' = [ret EXCEPT ![t].pc = "store_evaluation",
                               ![t].settled = Complete(obj[1])]
         /\ msb_args' = b.calls
         /\ accountings' = [accountings EXCEPT ![1] = IF @ < AccountingCap THEN @ + 1 ELSE @]
    /\ UNCHANGED obj

\* if self._evaluation != 0: return; otherwise the accounting and the branches
\* run on locals, up to the store of _evaluation
RaceTest(t) ==
    /\ ret[t].pc = "test"
    /\ IF IsCached(obj[1])
       THEN /\ ret' = [ret EXCEPT ![t].pc = "read", ![t].cached = TRUE,
                                  ![t].settled = Complete(obj[1])]
            /\ UNCHANGED <<msb_args, accountings>>
       ELSE \E b \in {Branches(Accounting(obj[1]))} :
            /\ ret' = [ret EXCEPT ![t].pc = "store_evaluation",
                                  ![t].settled = Complete(obj[1])]
            /\ msb_args' = b.calls
            /\ accountings' = [accountings EXCEPT ![1] =
                                  IF @ < AccountingCap THEN @ + 1 ELSE @]
    /\ UNCHANGED obj

\* self._evaluation = ...; the straight flush branch returns right after it
RaceStoreEvaluation(t) ==
    /\ ret[t].pc = "store_evaluation"
    /\ \E b \in {Branches(Accounting(obj[1]))} :
         /\ obj' = [obj EXCEPT ![1]._evaluation = b.ev]
         /\ ret' = [ret EXCEPT ![t].pc = IF b.early THEN "read" ELSE "store_type"]
    /\ UNCHANGED <<msb_args, accountings>>

\* self._hand_type = self._evaluation >> 26 and
\* self._hand_distinguisher = self._evaluation & 0x3FFFFFF
RaceStoreType(t) ==
    /\ ret[t].pc = "store_type"
    /\ obj' = [obj EXCEPT ![1]._hand_type = obj[1]._evaluation \div Pow2[26],
                          ![1]._hand_distinguisher = obj[1]._evaluation % Pow2[26]]
    /\ ret' = [ret EXCEPT ![t].pc = "store_fields"]
    /\ UNCHANGED <<msb_args, accountings>>

\* "Save local vars as fields", then return self._evaluation
RaceStoreFields(t) ==
    /\ ret[t].pc = "store_fields"
    /\ \E a \in {Accounting(obj[1])} :
         obj' = [obj EXCEPT ![1] = Computed(obj[1], a, [ev |-> obj[1]._evaluation, early |-> FALSE])]
    /\ ret' = [ret EXCEPT ![t].pc = "read"]
    /\ UNCHANGED <<msb_args, accountings>>

\* return self._hand_type == Hand.X, or return self._rankset
RaceRead(t) ==
    /\ ret[t].pc = "read"
    /\ ret' = [ret EXCEPT ![t].pc = "done",
                          ![t].val = IF ret[t].op = "is" THEN obj[1]._hand_type = ret[t].arg
                                     ELSE obj[1]._rankset]
    /\ UNCHANGED <<obj, msb_args, accountings>>

\* the caller has its answer and is free for the next call
RaceReturn(t) ==
    /\ ret[t].pc = "done"
    /\ ret' = [ret EXCEPT ![t] = Idle]
    /\ UNCHANGED <<obj, msb_args, accountings>>

NextRace ==
    \E t \in Threads :
        \/ \E c \in {<<"is", HIGH_CARD>>, <<"is", PAIR>>, <<"get_rankset", 0>>} :
              RaceCall(t, c)
        \/ RaceTest(t)
        \/ RaceStoreEvaluation(t)
        \/ RaceStoreType(t)
        \/ RaceStoreFields(t)
        \/ RaceRead(t)
        \/ RaceReturn(t)

SpecRace == InitRace /\ [][NextRace]_vars

\* a rankset to look for a straight in: every set of the 13 ranks
InitStraight ==
    /\ obj = << >>
    /\ \E rankset \in 0..(Pow2[13] - 1) : ret = [NoCall EXCEPT !.arg = rankset]
    /\ msb_args = {}
    /\ accountings = << >>

\* find_straight(rankset)
FindStraight ==
    /\ ret.op = "none"
    /\ ret' = [ret EXCEPT !.op = "find_straight", !.val = find_straight(ret.arg)]
    /\ UNCHANGED <<obj, msb_args, accountings>>

NextStraight == FindStraight

SpecStraight == InitStraight /\ [][NextStraight]_vars

NextToken == \E c \in Tokens : CardFromStr(c)

SpecToken == InitCodec /\ [][NextToken]_vars

NextDraw == \E i \in DOMAIN obj : StraightDrawType(i)

SpecDraw == InitDraw /\ [][NextDraw]_vars

\* FlushDraws.categorize(h): get_suit_count evaluates first, and tuple(None)
\* raises when the evaluation left _suit_count unset
FlushDrawCategorize(i) ==
    \E e \in {_evaluate_internal(obj[i])} :
        /\ Evaluates(i, e)
        /\ ret' = IF e.o._suit_count = None
                  THEN Raised(i, "FlushDraws.categorize", 0, e, "TypeError")
                  ELSE Result(i, "FlushDraws.categorize", 0, e,
                              FlushCategorize(e.o._suit_count[1], e.o._rankset_suit[1],
                                              get_hand_suit_ranksets(e.o)[1]))

\* flush_draw_type(hole, board) of the tests: categorize on a fresh instance
FlushDrawType(i) == accountings[i] = 0 /\ FlushDrawCategorize(i)

NextFlush == \E i \in DOMAIN obj : FlushDrawType(i)

SpecFlush == InitFlush /\ [][NextFlush]_vars

\* the outcome of a call that does not start with _evaluate_internal()
Answer(i, op, val) ==
    [inst |-> i, op |-> op, arg |-> 0, cached |-> FALSE, raised |-> "", val |-> val]

\* HandCategorizer.get_pair_category(h): reads the attributes, evaluates nothing
GetPairCategory(i) ==
    /\ ret' = Answer(i, "get_pair_category", get_pair_category(obj[i]))
    /\ UNCHANGED <<obj, msb_args, accountings>>

\* HandCategorizer.get_high_card_category(h): past the test it evaluates, then
\* walks the rank counts
GetHighCardCategory(i) ==
    IF ~HighCardCategoryApplies(obj[i])
    THEN /\ ret' = Answer(i, "get_high_card_category", None)
         /\ UNCHANGED <<obj, msb_args, accountings>>
    ELSE \E e \in {_evaluate_internal(obj[i])} :
            /\ Evaluates(i, e)
            /\ ret' = Result(i, "get_high_card_category", 0, e,
                             HighCardLoop(e.o._hand_rank_count[1],
                                          e.o._board_rank_count[1], 12,
                                          HighCardLocals))

\* h.board_adjusted_hand_type() on a hand whose accounting is saved, the way the
\* tests and SpotData._compute_hands_df call it: after hand(hole, board, True)
BoardAdjustedHandType(i) ==
    /\ obj[i]._rank_count # None
    /\ ret' = Answer(i, "board_adjusted_hand_type", board_adjusted_hand_type(obj[i]))
    /\ UNCHANGED <<obj, msb_args, accountings>>

NextPair ==
    \E i \in DOMAIN obj :
        \/ HandEvaluate(i)
        \/ GetPairCategory(i)
        \/ GetHighCardCategory(i)
        \/ BoardAdjustedHandType(i)

SpecPair == InitPair /\ [][NextPair]_vars

\* the calls that take a Hand: _evaluate_internal, the is_* tests, the get_*
\* accessors, the two draw classifiers and HandCategorizer.get_pair_category
NextFrame ==
    \E i \in DOMAIN obj :
        \/ EvaluateInternal(i)
        \/ \E t \in 0..8 : IsHandType(i, t)
        \/ \E g \in PlainGetters \cup TupleGetters : Getter(i, g)
        \/ StraightDrawCategorize(i)
        \/ FlushDrawCategorize(i)
        \/ GetPairCategory(i)

FrameDeckOrder == <<Card(0, 0), Card(3, 0), Card(3, 1), Card(7, 3), Card(11, 2),
                    Card(12, 0), Card(7, 1)>>

InitFrame == InitOver({FrameDeckOrder[k] : k \in 1..FrameDeckSize})

SpecFrame == InitFrame /\ [][NextFrame]_vars

----------------------------------------------------------------------------
(* pious.pio.line: the Line of a PioSOLVER game tree.  A line string is a    *)
(* sequence of characters and an action a sequence of characters.            *)

FLOP == 1

\* the actions the line strings are put together from
LineTokens == {<<"c">>, <<"f">>, <<"b", "3", "0">>, <<"b", "7", "5">>}

\* ":".join(parts)
RECURSIVE Join(_)
Join(parts) ==
    IF parts = << >> THEN << >>
    ELSE IF Len(parts) = 1 THEN parts[1]
    ELSE parts[1] \o <<":">> \o Join(Tail(parts))

\* str.split(":") from position k on, cur the piece begun and acc the pieces cut
RECURSIVE Split(_, _, _, _)
Split(str, k, cur, acc) ==
    IF k > Len(str) THEN Append(acc, cur)
    ELSE IF str[k] = ":" THEN Split(str, k + 1, << >>, Append(acc, cur))
    ELSE Split(str, k + 1, Append(cur, str[k]), acc)

\* int(digits)
RECURSIVE int(_)
int(digits) ==
    IF digits = << >> THEN 0
    ELSE 10 * int(SubSeq(digits, 1, Len(digits) - 1))
         + (CHOOSE d \in 0..9 : <<"0", "1", "2", "3", "4", "5", "6", "7", "8", "9">>[d + 1]
                                    = digits[Len(digits)])

\* the scan `for action in reversed(actions)` for the last bet of a street:
\* found tells a bet, amount its int(action[1:]), and empty an action "" met
\* before a bet, on which action[0] raises
LastBet(actions) ==
    LET bets == {k \in DOMAIN actions : actions[k] # << >> /\ actions[k][1] = "b"}
        last == IF bets = {} THEN 0 ELSE CHOOSE k \in bets : \A j \in bets : j <= k
    IN  [found |-> bets # {},
         amount |-> IF bets = {} THEN 0 ELSE int(Tail(actions[last])),
         empty |-> \E k \in DOMAIN actions : k > last /\ actions[k] = << >>]

\* money_in_per_street(streets_as_actions): the list [0, 0, 0, 0] with the last
\* bet of each street; a bet on a fifth street raises IndexError
money_in_per_street(streets_as_actions) ==
    [raised |-> IF \E k \in DOMAIN streets_as_actions :
                        k > 4 /\ LastBet(streets_as_actions[k]).found
                THEN "IndexError" ELSE "",
     val |-> [street \in 0..3 |->
                IF street + 1 \in DOMAIN streets_as_actions
                THEN LastBet(streets_as_actions[street + 1]).amount ELSE 0]]

\* the loop of actions_to_streets that closes a street on a check or call that
\* is not the first action of the street
RECURSIVE GroupStreets(_, _, _)
GroupStreets(actions, current_street, streets) ==
    IF actions = << >> THEN [streets |-> streets, current_street |-> current_street]
    ELSE LET street == Append(current_street, Head(actions))
         IN  IF Head(actions) # << >> /\ Head(actions)[1] = "c" /\ Len(street) > 1
             THEN GroupStreets(Tail(actions), << >>, Append(streets, street))
             ELSE GroupStreets(Tail(actions), street, streets)

\* actions_to_streets(actions, starting_street, effective_stacks)
actions_to_streets(actions, starting_street, effective_stacks) ==
    LET rooted == actions[1] = <<"r">>
        root == IF rooted THEN SubSeq(actions, 1, IF Len(actions) < 2 THEN Len(actions) ELSE 2)
                ELSE << << >> >>
        rest == IF rooted THEN SubSeq(actions, 3, Len(actions)) ELSE actions
        g == GroupStreets(rest, << >>, <<root>>)
        streets == g.streets
        money == money_in_per_street(streets)
        final == streets[Len(streets)][Len(streets[Len(streets)])]
        sum(money_per_street) == money_per_street[0] + money_per_street[1]
                                 + money_per_street[2] + money_per_street[3]
        all_in == /\ effective_stacks # None
                  /\ final = <<"c">>
                  /\ effective_stacks[1] = sum(money.val)
    IN  IF g.current_street # << >>
          THEN [raised |-> "", is_terminal |-> FALSE,
                streets |-> Append(streets, g.current_street)]
        ELSE IF money.raised # ""
          THEN [raised |-> money.raised, is_terminal |-> FALSE, streets |-> streets]
        ELSE IF ~all_in /\ Len(streets) + starting_street < 5 /\ final # <<"f">>
          THEN [raised |-> "", is_terminal |-> FALSE, streets |-> Append(streets, << >>)]
        ELSE [raised |-> "", is_terminal |-> TRUE, streets |-> streets]

\* the loop of Line._setup over the streets that fills _money_in_per_street
\* with the money each street adds
RECURSIVE MoneyLoop(_, _, _, _)
MoneyLoop(streets_as_actions, street, money_so_far, money) ==
    IF street >= Len(streets_as_actions) THEN [raised |-> "", val |-> money]
    ELSE LET b == LastBet(streets_as_actions[street + 1])
         IN  IF b.empty \/ (b.found /\ street > 3) THEN [raised |-> "IndexError", val |-> money]
             ELSE IF b.found
               THEN MoneyLoop(streets_as_actions, street + 1, b.amount,
                              [money EXCEPT ![street] = b.amount - money_so_far])
             ELSE MoneyLoop(streets_as_actions, street + 1, money_so_far, money)

\* Line(line, starting_street, effective_stack): __init__ and the _setup it
\* calls.  raised names the exception that leaves the constructor, o is the
\* instance a completed constructor returns.
Line(line, starting_street, effective_stack) ==
    LET actions == Split(line, 1, << >>, << >>)
        s == actions_to_streets(actions, starting_street, effective_stack)
        streets_as_actions == s.streets
        m == MoneyLoop(streets_as_actions, 0, 0, [street \in 0..3 |-> 0])
        ends(ch) == line # << >> /\ line[Len(line)] = ch
        sum(money) == money[0] + money[1] + money[2] + money[3]
        river == /\ Len(streets_as_actions) = 4
                 /\ Len(streets_as_actions[4]) >= 2
                 /\ ends("c")
        compares == ~ends("f") /\ ~river /\ ends("c")
        o == [line_str |-> line,
              _starting_street |-> starting_street,
              _is_terminal |-> \/ ends("f")
                               \/ river
                               \/ /\ compares
                                  /\ effective_stack # None
                                  /\ sum(m.val) >= effective_stack[1],
              _effective_stack |-> effective_stack,
              _money_in_per_street |-> m.val,
              actions |-> actions,
              streets_as_actions |-> streets_as_actions,
              streets_as_lines |-> [k \in DOMAIN streets_as_actions |->
                                        Join(streets_as_actions[k])],
              nodes |-> << >>]
    IN  IF s.raised # "" THEN [raised |-> s.raised, o |-> None]
        ELSE IF m.raised # "" THEN [raised |-> m.raised, o |-> None]
        ELSE IF compares /\ effective_stack = None THEN [raised |-> "TypeError", o |-> None]
        ELSE [raised |-> "", o |-> Some(o)]

\* Line.get_parent(): None for the root, else the Line, of the default
\* arguments, of line_str.rsplit(":", 1)[0]
get_parent(o) ==
    LET colons == {k \in DOMAIN o.line_str : o.line_str[k] = ":"}
        head == IF colons = {} THEN o.line_str
                ELSE SubSeq(o.line_str, 1,
                            (CHOOSE k \in colons : \A j \in colons : j <= k) - 1)
    IN  IF o.line_str = <<"r", ":", "0">> THEN [raised |-> "", o |-> None]
        ELSE Line(head, FLOP, None)

\* the line strings: up to MaxLineActions actions, after the root r:0 or bare,
\* and the lines of the docstring of Line that run to the river
LineStrings ==
    LET c == <<"c">>
        b(digits) == <<"b">> \o digits
        r0 == <<<<"r">>, <<"0">>>>
        docstring ==
            {Join(r0 \o <<c, b(<<"3", "0">>), c, b(<<"7", "5">>), c,
                          b(<<"1", "0", "0">>), b(<<"3", "0", "0">>), c>>),
             Join(r0 \o <<c, b(<<"3", "0">>), b(<<"1", "0", "0">>), c,
                          b(<<"2", "5", "0">>), <<"f">>>>),
             Join(r0 \o <<c, b(<<"3", "0">>), c, c, b(<<"3", "0">>), c>>),
             Join(r0 \o <<c, c, c, c, c, c>>)}
    IN  docstring \cup
        {Join(root \o acts) :
            root \in {r0, << >>},
            acts \in UNION {[1..n -> LineTokens] : n \in 0..MaxLineActions}}

\* line = Line(line_str, effective_stack=effective_stack)
LineInit(line, effective_stack) ==
    /\ ret = NoCall
    /\ \E r \in {Line(line, FLOP, effective_stack)} :
          /\ obj' = IF r.raised = "" THEN [i \in {1} |-> r.o[1]] ELSE obj
          /\ ret' = [NoCall EXCEPT !.inst = IF r.raised = "" THEN 1 ELSE 0,
                                   !.op = "Line",
                                   !.arg = <<line, effective_stack>>,
                                   !.raised = r.raised]
    /\ UNCHANGED <<msb_args, accountings>>

\* line.get_parent()
LineGetParent(i) ==
    /\ ret.op = "Line"
    /\ \E r \in {get_parent(obj[i])} :
          ret' = [NoCall EXCEPT !.inst = i, !.op = "get_parent", !.arg = obj[i].line_str,
                                !.raised = r.raised, !.val = r.o]
    /\ UNCHANGED <<obj, msb_args, accountings>>

NextLine ==
    \/ \E line \in LineStrings : \E effective_stack \in {None, Some(75), Some(1000)} :
            LineInit(line, effective_stack)
    \/ \E i \in DOMAIN obj : LineGetParent(i)

SpecLine == InitCodec /\ [][NextLine]_vars

----------------------------------------------------------------------------
(* pious.hrc.game_state: GameState and the replay of Game.__init__.  Lists   *)
(* indexed by seat are functions over 0 .. num_players - 1.                  *)

\* sim.settings.hand_data of the test simulation: stacks and blinds
StartStack == 100000
BigBlind == 1000
SmallBlind == 500
Ante == 0

\* GameState.apply_previous_action(action); raised names the exception, o is
\* the GameState returned
apply_previous_action(self, a) ==
    LET current_player == self.current_player
        next_player == (current_player + 1) % self.num_players
        new_money_entering_pot == a.amount - self.bets[current_player]
        put(money, total) ==
            [pot |-> self.pot + money,
             stacks |-> [self.stacks EXCEPT ![current_player] = @ - money],
             num_players |-> self.num_players,
             player_names |-> self.player_names,
             bets |-> [self.bets EXCEPT ![current_player] = total],
             in_hand |-> self.in_hand,
             current_player |-> next_player,
             available_actions |-> None]
    IN  IF a.player # self.current_player \/ ~self.in_hand[self.current_player]
          THEN [raised |-> "RuntimeError", o |-> None]
        ELSE IF a.type = "F"
          THEN [raised |-> "",
                o |-> Some([put(0, self.bets[current_player])
                                EXCEPT !.in_hand[current_player] = FALSE])]
        ELSE IF a.type = "R"
          THEN [raised |-> "", o |-> Some(put(new_money_entering_pot, a.amount))]
        ELSE IF a.type = "C"
          THEN [raised |-> "",
                o |-> Some(put(a.amount, self.bets[current_player] + a.amount))]
        ELSE [raised |-> "", o |-> Some(put(0, self.bets[current_player]))]

\* Game.__init__ up to its loop: the state after antes and blinds, first seat
\* to act
game_state_at_hand_start(num_players) ==
    LET names == <<"lj", "hj", "co", "bn", "sb", "bb">>
        seats == 0..(num_players - 1)
    IN  [pot |-> num_players * Ante + SmallBlind + BigBlind,
         stacks |-> [i \in seats |->
                        StartStack - Ante
                        - (IF i = num_players - 2 THEN SmallBlind ELSE 0)
                        - (IF i = num_players - 1 THEN BigBlind ELSE 0)],
         num_players |-> num_players,
         player_names |-> SubSeq(names, IF num_players >= 6 THEN 1 ELSE 7 - num_players, 6),
         bets |-> [i \in seats |->
                        IF i = num_players - 2 THEN SmallBlind
                        ELSE IF i = num_players - 1 THEN BigBlind ELSE 0],
         in_hand |-> [i \in seats |-> TRUE],
         current_player |-> 0,
         available_actions |-> None]

\* game = Game(sim) entering the loop over node.sequence
InitGame ==
    /\ obj = [i \in {1} |->
                [game_state_at_hand_start |-> game_state_at_hand_start(NumPlayers),
                 game_states |-> <<game_state_at_hand_start(NumPlayers)>>]]
    /\ ret = NoCall
    /\ msb_args = {}
    /\ accountings = << >>

\* the actions the solver can have recorded next in node.sequence: the seat to
\* act is the first seat, in cyclic order after the seat that acted last, that
\* has not folded; it folds, calls what it is behind, or raises to more
\* than the highest bet
RecordedActions(state, last_player) ==
    LET n == state.num_players
        live == {i \in 0..(n - 1) : state.in_hand[i]}
        after(i) == (i - last_player - 1) % n
        seat == CHOOSE i \in live : \A j \in live : after(i) <= after(j)
        highest == CHOOSE b \in {state.bets[i] : i \in live} :
                        \A i \in live : state.bets[i] <= b
    IN  IF Cardinality(live) < 2 THEN {}
        ELSE {[player |-> seat, type |-> "F", amount |-> 0],
              [player |-> seat, type |-> "C", amount |-> highest - state.bets[seat]]}
             \cup {[player |-> seat, type |-> "R", amount |-> amount] :
                        amount \in {r \in {2500, 7500, 12000, 30000} : r > highest}}

\* one turn of the loop of Game.__init__:
\* game_states.append(game_states[-1].apply_previous_action(action))
ApplyPreviousAction(i, action) ==
    /\ ret.raised = ""
    /\ Len(obj[i].game_states) <= MaxSequence
    /\ \E r \in {apply_previous_action(obj[i].game_states[Len(obj[i].game_states)], action)} :
          /\ obj' = IF r.raised = "" THEN [obj EXCEPT ![i].game_states = Append(@, r.o[1])]
                    ELSE obj
          /\ ret' = [NoCall EXCEPT !.inst = i, !.op = "apply_previous_action",
                                   !.arg = action, !.raised = r.raised, !.val = r.o]
    /\ UNCHANGED <<msb_args, accountings>>

NextGame ==
    \E i \in DOMAIN obj :
        \E action \in RecordedActions(obj[i].game_states[Len(obj[i].game_states)],
                                      IF ret.op = "none" THEN -1 ELSE ret.arg.player) :
            ApplyPreviousAction(i, action)

SpecGame == InitGame /\ [][NextGame]_vars

----------------------------------------------------------------------------
(* Poker rules, stated over the cards: the reference the claims compare with. *)

RankOf(c) == c \div 4
SuitOf(c) == c % 4

CardsOf(o) == {o.all_cards[k] : k \in DOMAIN o.all_cards}

\* the category of a hand of at most five cards
RuleCategory(S) ==
    LET ranks == {RankOf(c) : c \in S}
        cnt == [r \in ranks |-> Cardinality({c \in S : RankOf(c) = r})]
        counts == {cnt[r] : r \in ranks}
        flush == Cardinality(S) = 5 /\ \E s \in 0..3 : \A c \in S : SuitOf(c) = s
        straight == /\ Cardinality(ranks) = 5
                    /\ \/ \E lo \in 0..8 : ranks = lo..(lo + 4)
                       \/ ranks = {12, 0, 1, 2, 3}
    IN  IF straight /\ flush THEN STRAIGHT_FLUSH
        ELSE IF 4 \in counts THEN QUADS
        ELSE IF counts = {2, 3} THEN FULL_HOUSE
        ELSE IF flush THEN FLUSH
        ELSE IF straight THEN STRAIGHT
        ELSE IF 3 \in counts THEN TRIPS
        ELSE IF Cardinality({r \in ranks : cnt[r] = 2}) = 2 THEN TWO_PAIR
        ELSE IF 2 \in counts THEN PAIR
        ELSE HIGH_CARD

\* the hands of five cards (of all the cards, when there are fewer) in a card set
FiveCardHands(cards) ==
    LET n == IF Cardinality(cards) < 5 THEN Cardinality(cards) ELSE 5
    IN  {S \in SUBSET cards : Cardinality(S) = n}

\* the category of the best hand a card set holds
BestCategory(cards) ==
    LET cats == {RuleCategory(S) : S \in FiveCardHands(cards)}
    IN  CHOOSE t \in cats : \A u \in cats : u <= t

\* the strength of a hand of five cards: the category, then the ranks in the
\* order they decide between hands of the category (the larger groups first,
\* the higher rank first; a straight by its top card, the wheel's being the five)
RuleStrength(S) ==
    LET ranks == {RankOf(c) : c \in S}
        cat == RuleCategory(S)
        key == [r \in ranks |-> 13 * Cardinality({c \in S : RankOf(c) = r}) + r]
        \* the place of rank r in the deciding order, 1 first
        place == [r \in ranks |-> 1 + Cardinality({q \in ranks : key[q] > key[r]})]
        top == IF ranks = {12, 0, 1, 2, 3} THEN 3
               ELSE CHOOSE r \in ranks : \A q \in ranks : q <= r
        Weight == [k \in 1..5 |-> 13 ^ (5 - k)]
        RECURSIVE Sum(_)
        Sum(R) == IF R = {} THEN 0
                  ELSE LET r == CHOOSE x \in R : TRUE
                       IN  r * Weight[place[r]] + Sum(R \ {r})
    IN  IF cat \in {STRAIGHT, STRAIGHT_FLUSH} THEN cat * (13 ^ 5) + top * Weight[1]
        ELSE cat * (13 ^ 5) + Sum(ranks)

\* the strength of the best five-card hand a card set holds
BestStrength(cards) ==
    LET strengths == {RuleStrength(S) : S \in FiveCardHands(cards)}
    IN  CHOOSE t \in strengths : \A u \in strengths : u <= t

----------------------------------------------------------------------------
(* Claims. *)

\* the last call was op on instance i and returned
Returned(i, op) == ret.inst = i /\ ret.op = op /\ ret.raised = ""

\* C1: the hand type in the high bits (value >> 26) of the value returned by
\* _evaluate_internal is the category of the best five-card poker hand of
\* hole plus board.
C1_TypeIsBestCategory ==
    \A i \in DOMAIN obj :
        Returned(i, "_evaluate_internal") =>
            ret.val \div Pow2[26] = BestCategory(CardsOf(obj[i]))

\* a seven card hand was evaluated whose best hand is a straight by the rules
C1_Witness ==
    \E i \in DOMAIN obj :
        /\ Returned(i, "_evaluate_internal")
        /\ Len(obj[i].board_cards) = 5
        /\ BestCategory(CardsOf(obj[i])) = STRAIGHT

\* C2: a hand whose cards hold a straight flush is reported as STRAIGHT_FLUSH:
\* is_straight_flush() returns true, is_flush() and is_straight() return false.
C2_StraightFlushReported ==
    \A i \in DOMAIN obj :
        (/\ Returned(i, "is")
         /\ ret.arg \in {STRAIGHT_FLUSH, FLUSH, STRAIGHT}
         /\ BestCategory(CardsOf(obj[i])) = STRAIGHT_FLUSH)
        => ret.val = (ret.arg = STRAIGHT_FLUSH)

\* C3: two hands evaluated with the same number of board cards (3, 4 or 5)
\* have packed values that compare as their best five-card hands do.
C3_ValuesCompareAsHands ==
    \A i, j \in DOMAIN obj :
        (/\ obj[i]._evaluation # 0
         /\ obj[j]._evaluation # 0
         /\ Len(obj[i].board_cards) = Len(obj[j].board_cards)
         /\ Len(obj[i].board_cards) \in {3, 4, 5})
        => ((obj[i]._evaluation < obj[j]._evaluation)
             <=> (BestStrength(CardsOf(obj[i])) < BestStrength(CardsOf(obj[j]))))

AccountingAttrs(o) ==
    <<o._rankset, o._rank_count, o._rankset_suit, o._rankset_of_count, o._suit_count,
      o._hand_rankset, o._hand_rank_count, o._hand_rankset_suit,
      o._hand_rankset_of_count, o._hand_suit_count,
      o._board_rankset, o._board_rank_count, o._board_rankset_suit,
      o._board_rankset_of_count>>

\* C4: after the first evaluating call on an instance all the evaluation fields
\* are populated together: _hand_type is _evaluation >> 26, _hand_distinguisher
\* is _evaluation & 0x3FFFFFF, and no accounting field is left None.
C4_FieldsPopulatedTogether ==
    \A i \in DOMAIN obj :
        ret.inst = i =>
            /\ obj[i]._hand_type = obj[i]._evaluation \div Pow2[26]
            /\ obj[i]._hand_distinguisher = obj[i]._evaluation % Pow2[26]
            /\ \A k \in 1..14 : AccountingAttrs(obj[i])[k] # None

\* C5: on a constructed hand _evaluate_internal, the is_* predicates and
\* StraightDrawMasks.categorize return a result and never raise.
C5_CallsNeverRaise ==
    ret.op \in {"_evaluate_internal", "is", "StraightDrawMasks.categorize"}
        => ret.raised = ""

\* C6: every keep_n_msb(x, n) call made while _evaluate_internal runs receives
\* an x with at least n set bits.
C6_KeepMsbNeverExhausted ==
    \A c \in msb_args : Cardinality(Bits(c[1])) >= c[2]

\* C7: on one instance the accounting runs at most once and leaves a nonzero
\* _evaluation; every later evaluating call changes no attribute of the
\* instance, and a later _evaluate_internal returns the stored value again.
C7_EvaluatedOnce ==
    /\ [](\A i \in DOMAIN obj :
            /\ accountings[i] <= 1
            /\ accountings[i] = 1 => obj[i]._evaluation # 0)
    /\ [][\A i \in DOMAIN obj :
            accountings[i] >= 1 =>
                /\ obj'[i] = obj[i]
                /\ accountings'[i] = accountings[i]
                /\ (ret'.inst = i /\ ret'.op = "_evaluate_internal")
                      => ret'.val = obj[i]._evaluation]_vars

\* an instance answered a call from its cache after its accounting had run
C7_Witness ==
    \E i \in DOMAIN obj :
        /\ accountings[i] = 1
        /\ ret.inst = i
        /\ ret.cached
        /\ ret.op = "_evaluate_internal"
        /\ ret.val = obj[i]._evaluation

(* The draw patterns, stated over the ranks of the cards. *)

HoleRanks(o) == {RankOf(o.hand_cards[k]) : k \in DOMAIN o.hand_cards}
BoardRanks(o) == {RankOf(o.board_cards[k]) : k \in DOMAIN o.board_cards}
AllRanks(o) == HoleRanks(o) \cup BoardRanks(o)

\* the hole ranks that are not board ranks
Contributing(o) == HoleRanks(o) \ BoardRanks(o)

\* the masks of StraightDrawMasks as patterns: the sets of their bit positions
OesdPatterns == {Bits(m) : m \in oesd_5_card_masks}
DoubleGutterPatterns == {Bits(m) : m \in double_gutter_7_card_masks}
GutshotPatterns == {Bits(m) : m \in gutshot_5_card_masks}
BroadwayPatterns == {Bits(m) : m \in a_high_broadway_13_card_masks}
WheelPatterns == {Bits(m) : m \in a_high_wheel_13_card_masks}
BackdoorPatterns == {Bits(m) : m \in backdoor_5_card_masks}
BackdoorWheelPatterns == {Bits(m) : m \in backdoor_wheel_masks}
BackdoorLowPatterns == {Bits(m) : m \in backdoor_4_5_high_masks}

\* the ranks of a window of the given width that starts at rank lo, moved down to 0
Window(R, lo, width) == {r - lo : r \in R \cap (lo..(lo + width - 1))}

Offsets == 0..8
AceWheelRanks == {12, 0, 1, 2, 3}
BroadwayRanks == 8..12

\* the width of a double gutter pattern: its highest bit plus one
PatternWidth == [m \in DoubleGutterPatterns |-> 1 + CHOOSE b \in m : \A c \in m : c <= b]

(* In what follows R is the set of the ranks of hole plus board and C the set *)
(* of the contributing hole ranks.                                            *)

\* a double gutter or open-ended pattern lies at lo with n contributing hole
\* ranks inside
DoubleGutterAt(R, C, lo, n) ==
    \E m \in DoubleGutterPatterns :
        /\ Window(R, lo, PatternWidth[m]) = m
        /\ Cardinality(C \cap (lo..(lo + PatternWidth[m] - 1))) = n
OesdAt(R, C, lo, n) ==
    /\ Window(R, lo, 5) \in OesdPatterns
    /\ Cardinality(C \cap (lo..(lo + 4))) = n
EightOutMatch(R, C) ==
    \E lo \in Offsets : \E n \in 1..2 : DoubleGutterAt(R, C, lo, n) \/ OesdAt(R, C, lo, n)

BroadwayMatch(R) == 12 \in R /\ (R \cap BroadwayRanks) \in BroadwayPatterns
WheelMatch(R) == 12 \in R /\ (R \cap AceWheelRanks) \in WheelPatterns
AceAnchoredMatch(R) == BroadwayMatch(R) \/ WheelMatch(R)

GutshotAt(R, lo) == Window(R, lo, 5) \in GutshotPatterns
GutshotMatch(R) == \E lo \in Offsets : GutshotAt(R, lo)

BackdoorAt(R, lo) == Window(R, lo, 5) \in BackdoorPatterns
BackdoorWheelMatch(R) == (R \cap AceWheelRanks) \in BackdoorWheelPatterns
BackdoorLowMatch(R) == (R \cap (0..3)) \in BackdoorLowPatterns
\* a backdoor pattern of any kind lies somewhere
BackdoorMatchAny(R) ==
    \/ \E lo \in Offsets : BackdoorAt(R, lo)
    \/ BackdoorWheelMatch(R)
    \/ BackdoorLowMatch(R)
\* the same, the sliding patterns only with a contributing hole rank inside
BackdoorMatchContributing(R, C) ==
    \/ \E lo \in Offsets : BackdoorAt(R, lo) /\ C \cap (lo..(lo + 4)) # {}
    \/ BackdoorWheelMatch(R)
    \/ BackdoorLowMatch(R)

\* the class of a label: 8 outs, ace-anchored, gutshot, backdoor, none
LabelClass(label) ==
    CASE label \in {"DOUBLE_GUTTER", "OESD"} -> 4
      [] label \in {"A_HIGH_BROADWAY", "A_HIGH_WHEEL"} -> 3
      [] label = "GUTSHOT" -> 2
      [] label \in {"3_STRAIGHT", "3_WHEEL"} -> 1
      [] label = "NO_STRAIGHT_DRAW" -> 0

\* C8: StraightDrawMasks.categorize returns the count 0 exactly with the label
\* NO_STRAIGHT_DRAW; every other label comes with a count of at least 1.
C8_ZeroCountOnlyWithoutDraw ==
    \A i \in DOMAIN obj :
        Returned(i, "StraightDrawMasks.categorize") =>
            ((ret.val[2] = 0) <=> (ret.val[1] = "NO_STRAIGHT_DRAW"))

\* C9 as claimed: a label of a lower class is returned only when no pattern of
\* a higher class matches at any offset, where only the 8-out patterns need a
\* contributing hole rank to count as matching.
C9_PrecedenceAnyBackdoor ==
    \A i \in DOMAIN obj :
        Returned(i, "StraightDrawMasks.categorize") =>
            LET c == LabelClass(ret.val[1])
                R == AllRanks(obj[i])
                C == Contributing(obj[i])
            IN  /\ c < 4 => ~EightOutMatch(R, C)
                /\ c < 3 => ~AceAnchoredMatch(R)
                /\ c < 2 => ~GutshotMatch(R)
                /\ c < 1 => ~BackdoorMatchAny(R)

\* C9 amended: a label of a lower class is returned only when no pattern of a
\* higher class matches at any offset, where the 8-out patterns and the sliding
\* backdoor patterns need a contributing hole rank to count as matching.
C9_Precedence ==
    \A i \in DOMAIN obj :
        Returned(i, "StraightDrawMasks.categorize") =>
            LET c == LabelClass(ret.val[1])
                R == AllRanks(obj[i])
                C == Contributing(obj[i])
            IN  /\ c < 4 => ~EightOutMatch(R, C)
                /\ c < 3 => ~AceAnchoredMatch(R)
                /\ c < 2 => ~GutshotMatch(R)
                /\ c < 1 => ~BackdoorMatchContributing(R, C)

\* an ace-anchored label was returned for ranks that also hold a gutshot pattern
C9_Witness ==
    \E i \in DOMAIN obj :
        /\ Returned(i, "StraightDrawMasks.categorize")
        /\ ret.val[1] = "A_HIGH_BROADWAY"
        /\ GutshotMatch(AllRanks(obj[i]))

\* the count n is the number of contributing hole ranks among the ranks W
CountsIn(C, W, n) == n = Cardinality(C \cap W)

\* C10: the count returned with a label other than NO_STRAIGHT_DRAW is the
\* number of hole ranks that are not board ranks inside a window whose pattern
\* matched: the 5 ranks of an OESD, GUTSHOT or 3_STRAIGHT window, the ranks a
\* double gutter pattern spans, the ace-anchored ranks of the A_HIGH and wheel
\* labels, the four lowest ranks of the low 3_STRAIGHT.
C10_CountIsOfMatchedWindow ==
    \A i \in DOMAIN obj :
        Returned(i, "StraightDrawMasks.categorize") =>
            LET R == AllRanks(obj[i])
                C == Contributing(obj[i])
                label == ret.val[1]
                n == ret.val[2]
            IN  CASE label = "DOUBLE_GUTTER" -> \E lo \in Offsets : DoubleGutterAt(R, C, lo, n)
                  [] label = "OESD" -> \E lo \in Offsets : OesdAt(R, C, lo, n)
                  [] label = "GUTSHOT" ->
                        \E lo \in Offsets : GutshotAt(R, lo) /\ CountsIn(C, lo..(lo + 4), n)
                  [] label = "A_HIGH_BROADWAY" ->
                        BroadwayMatch(R) /\ CountsIn(C, BroadwayRanks, n)
                  [] label = "A_HIGH_WHEEL" ->
                        WheelMatch(R) /\ CountsIn(C, AceWheelRanks, n)
                  [] label = "3_WHEEL" ->
                        BackdoorWheelMatch(R) /\ CountsIn(C, AceWheelRanks, n)
                  [] label = "3_STRAIGHT" ->
                        \/ \E lo \in Offsets : BackdoorAt(R, lo) /\ CountsIn(C, lo..(lo + 4), n)
                        \/ BackdoorLowMatch(R) /\ CountsIn(C, 0..3, n)
                  [] label = "NO_STRAIGHT_DRAW" -> TRUE

\* a double gutter was returned with one of two contributing hole ranks counted:
\* the other lies outside the window
C10_Witness ==
    \E i \in DOMAIN obj :
        /\ Returned(i, "StraightDrawMasks.categorize")
        /\ ret.val = <<"DOUBLE_GUTTER", 1>>
        /\ Cardinality(Contributing(obj[i])) = 2

(* The flush draws, stated over the cards. *)

HoleCards(o) == {o.hand_cards[k] : k \in DOMAIN o.hand_cards}

\* how many of the cards are of suit s
SuitTotal(cards, s) == Cardinality({c \in cards : SuitOf(c) = s})

\* the suits a hole card is of
HoleSuits(o) == {SuitOf(c) : c \in HoleCards(o)}

\* the largest number of cards, hole plus board, of a suit a hole card is of
LargestHoleSuitTotal(o) ==
    LET totals == {SuitTotal(CardsOf(o), s) : s \in HoleSuits(o)}
    IN  CHOOSE t \in totals : \A u \in totals : u <= t

SelectedSuit(o) ==
    LET best == {s \in HoleSuits(o) :
                    SuitTotal(CardsOf(o), s) = LargestHoleSuitTotal(o)}
    IN  CHOOSE s \in best : \A t \in best : s <= t

SuitRanks(cards, s) == {RankOf(c) : c \in {d \in cards : SuitOf(d) = s}}

\* the highest rank of the hole cards of the selected suit
TopHoleRank(o) ==
    LET ranks == SuitRanks(HoleCards(o), SelectedSuit(o))
    IN  CHOOSE r \in ranks : \A q \in ranks : q <= r

\* C13 as claimed: the third component of a result other than NO_FLUSH_DRAW is
\* the 1-indexed position of the highest hole card of the selected suit among
\* the ranks of that suit present in hole plus board, counted from the highest.
C13_PositionAmongPresentRanks ==
    \A i \in DOMAIN obj :
        (Returned(i, "FlushDraws.categorize") /\ ret.val[1] # "NO_FLUSH_DRAW") =>
            LET o == obj[i]
                present == SuitRanks(CardsOf(o), SelectedSuit(o))
            IN  ret.val[3] = 1 + Cardinality({r \in present : r > TopHoleRank(o)})

\* C13 amended: the third component of a result other than NO_FLUSH_DRAW is the
\* 1-indexed position of the highest hole card of the selected suit among the
\* ranks from the ace down that are not held by another card of that suit in
\* hole plus board: 1 plus the number of higher ranks absent from the suit.
C13_PositionAmongAbsentRanks ==
    \A i \in DOMAIN obj :
        (Returned(i, "FlushDraws.categorize") /\ ret.val[1] # "NO_FLUSH_DRAW") =>
            LET o == obj[i]
                present == SuitRanks(CardsOf(o), SelectedSuit(o))
            IN  ret.val[3] = 1 + Cardinality({r \in (0..12) \ present :
                                                r > TopHoleRank(o)})

\* a position of 2 or more was returned for a hole card that has a board card
\* of its suit above it
C13_Witness ==
    \E i \in DOMAIN obj :
        /\ Returned(i, "FlushDraws.categorize")
        /\ ret.val[1] # "NO_FLUSH_DRAW"
        /\ ret.val[3] >= 2
        /\ \E r \in SuitRanks(CardsOf(obj[i]), SelectedSuit(obj[i])) :
              r > TopHoleRank(obj[i])

(* The pairs, stated over the cards. *)

\* how many of the cards are of rank r
RankTotal(cards, r) == Cardinality({c \in cards : RankOf(c) = r})

BoardCards(o) == {o.board_cards[k] : k \in DOMAIN o.board_cards}

\* the last call was get_pair_category on instance i and returned a tuple
PairCategoryOf(i) == Returned(i, "get_pair_category") /\ ret.val # None

\* C14: for a hand whose hand type is PAIR get_pair_category returns the
\* pair_type POCKET_PAIR exactly when both hole cards have the paired rank,
\* BOARD_PAIR exactly when both cards of the paired rank are board cards,
\* REGULAR_PAIR exactly when one hole card and one board card have it.
C14_PairTypeByOwners ==
    \A i \in DOMAIN obj :
        (Returned(i, "get_pair_category") /\ obj[i]._hand_type = PAIR) =>
            LET o == obj[i]
                paired == CHOOSE r \in 0..12 : RankTotal(CardsOf(o), r) = 2
                h == RankTotal(HoleCards(o), paired)
                b == RankTotal(BoardCards(o), paired)
            IN  /\ ret.val # None
                /\ ret.val[1] \in {Some(POCKET_PAIR), Some(BOARD_PAIR), Some(REGULAR_PAIR)}
                /\ (ret.val[1] = Some(POCKET_PAIR)) <=> (h = 2)
                /\ (ret.val[1] = Some(BOARD_PAIR)) <=> (b = 2)
                /\ (ret.val[1] = Some(REGULAR_PAIR)) <=> (h = 1 /\ b = 1)

\* BOARD_PAIR was returned for a hand of type PAIR
C14_Witness ==
    \E i \in DOMAIN obj :
        /\ PairCategoryOf(i)
        /\ obj[i]._hand_type = PAIR
        /\ ret.val[1] = Some(BOARD_PAIR)

\* the hands C15 speaks of: TWO_PAIR on a board that holds exactly one pair,
\* FULL_HOUSE on a board that holds trips
OnPairedBoard(o) ==
    \/ o._hand_type = TWO_PAIR /\ BestCategory(BoardCards(o)) = PAIR
    \/ o._hand_type = FULL_HOUSE /\ BestCategory(BoardCards(o)) = TRIPS

\* both hole cards have one rank, above every board rank
PocketOverpair(o) ==
    \E r \in 0..12 :
        /\ RankTotal(HoleCards(o), r) = 2
        /\ \A c \in BoardCards(o) : RankOf(c) < r

\* C15: for a hand that is TWO_PAIR on a board holding exactly one pair, or
\* FULL_HOUSE on a board holding trips, get_pair_category returns a tuple whose
\* pair_type is POCKET_PAIR or REGULAR_PAIR, never BOARD_PAIR; for a pocket
\* pair above every board rank the tuple is (POCKET_PAIR, 0, 0).
C15_HolePairOnPairedBoard ==
    \A i \in DOMAIN obj :
        (Returned(i, "get_pair_category") /\ OnPairedBoard(obj[i])) =>
            /\ ret.val # None
            /\ ret.val[1] \in {Some(POCKET_PAIR), Some(REGULAR_PAIR)}
            /\ PocketOverpair(obj[i]) =>
                  ret.val = <<Some(POCKET_PAIR), Some(0), Some(0)>>

\* the hole ranks that pair the board: one hole card and one board card have them
HolePairedRanks(o) ==
    {r \in 0..12 : RankTotal(HoleCards(o), r) = 1 /\ RankTotal(BoardCards(o), r) = 1}

\* the 1-indexed position of rank r among the ranks of R, counted from the highest
PositionAmong(r, R) == 1 + Cardinality({q \in R : q > r})

\* the last call returned a tuple whose pair_type is REGULAR_PAIR
RegularPairOf(i) == PairCategoryOf(i) /\ ret.val[1] = Some(REGULAR_PAIR)

\* C16 as claimed: in a REGULAR_PAIR result the second component is the
\* 1-indexed position of the paired board rank among the distinct board ranks
\* from the highest, and the third is the 1-indexed position, from the ace
\* down, of the other hole card among the ranks that are not paired.
C16_KickerAmongUnpairedRanks ==
    \A i \in DOMAIN obj :
        RegularPairOf(i) =>
            LET o == obj[i]
                unpaired == {r \in 0..12 : RankTotal(CardsOf(o), r) < 2}
            IN  \E p \in HolePairedRanks(o) :
                    /\ ret.val[2] = Some(PositionAmong(p, BoardRanks(o)))
                    /\ \E k \in HoleRanks(o) \ {p} :
                          ret.val[3] = Some(PositionAmong(k, unpaired))

\* C16 amended: in a REGULAR_PAIR result the second component is the 1-indexed
\* position of the paired board rank (the lowest rank a hole card pairs) among
\* the distinct board ranks from the highest, and the third is the 1-indexed
\* position, from the ace down, of the other hole card among the ranks no
\* board card has; it is None when the other hole card pairs the board too.
C16_KickerAmongOffBoardRanks ==
    \A i \in DOMAIN obj :
        RegularPairOf(i) =>
            LET o == obj[i]
                paired == HolePairedRanks(o)
                p == CHOOSE r \in paired : \A q \in paired : r <= q
                side == HoleRanks(o) \ BoardRanks(o)
                k == CHOOSE r \in side : TRUE
            IN  /\ paired # {}
                /\ ret.val[2] = Some(PositionAmong(p, BoardRanks(o)))
                /\ ret.val[3] = IF side = {} THEN None
                                ELSE Some(PositionAmong(k, (0..12) \ BoardRanks(o)))

\* a REGULAR_PAIR was returned whose kicker has an unpaired board rank above it
C16_Witness ==
    \E i \in DOMAIN obj :
        /\ RegularPairOf(i)
        /\ ret.val[3] # None
        /\ \E k \in HoleRanks(obj[i]) \ BoardRanks(obj[i]) :
              \E b \in BoardRanks(obj[i]) :
                  b > k /\ RankTotal(CardsOf(obj[i]), b) = 1

\* the hands C17 speaks of: two hole cards of different ranks that no board
\* card has, a hand type that is the board's own
PlaysTheBoard(o) ==
    /\ Cardinality(HoleRanks(o) \ BoardRanks(o)) = 2
    /\ o._evaluation # 0
    /\ o._hand_type = BestCategory(BoardCards(o))

\* how many distinct board ranks lie above rank r
BoardRanksAbove(o, r) == Cardinality({q \in BoardRanks(o) : q > r})

\* the higher and the lower of the hole ranks
HighHole(o) == CHOOSE r \in HoleRanks(o) : \A q \in HoleRanks(o) : q <= r
LowHole(o) == CHOOSE r \in HoleRanks(o) : \A q \in HoleRanks(o) : r <= q

\* C17 as claimed: for a hand whose hole cards pair nothing and whose hand
\* type is the board's own, get_high_card_category returns a pair of 1-indexed
\* rank positions of the two hole ranks, so both components are at least 1.
C17_OneIndexedPositions ==
    \A i \in DOMAIN obj :
        (Returned(i, "get_high_card_category") /\ PlaysTheBoard(obj[i])) =>
            /\ ret.val # None
            /\ ret.val[1] >= 1
            /\ ret.val[2] >= 1

\* C17 amended: for such a hand of a type below TRIPS get_high_card_category
\* returns a pair of counts, one for each of the two hole ranks from the higher
\* down: the number of distinct board ranks above that hole card, 0 for an
\* overcard.
C17_BoardRanksAbove ==
    \A i \in DOMAIN obj :
        (/\ Returned(i, "get_high_card_category")
         /\ PlaysTheBoard(obj[i])
         /\ obj[i]._hand_type < TRIPS) =>
            ret.val = <<BoardRanksAbove(obj[i], HighHole(obj[i])),
                        BoardRanksAbove(obj[i], LowHole(obj[i]))>>

\* (0, 2) was returned: an overcard and a card below two board ranks
C17_Witness ==
    \E i \in DOMAIN obj :
        /\ Returned(i, "get_high_card_category")
        /\ PlaysTheBoard(obj[i])
        /\ Len(obj[i].board_cards) >= 3
        /\ ret.val = <<0, 2>>

\* the pairs that play in the best hand: the two highest ranks held twice
PlayingPairs(o) ==
    LET pairs == {r \in 0..12 : RankTotal(CardsOf(o), r) = 2}
    IN  {r \in pairs : Cardinality({q \in pairs : q > r}) < 2}

\* the playing pairs a hole card is part of
HoleMadePairs(o) == {r \in PlayingPairs(o) : r \in HoleRanks(o)}

\* C18 as claimed: after evaluation _board_type is the hand type of the board
\* cards alone, and board_adjusted_hand_type() is HIGH_CARD when every pair of
\* the best hand is on the board, PAIR when one pair made with a hole card
\* plays, TWO_PAIR when two do, FULL_HOUSE when the hole cards complete a full
\* house.
C18_AdjustedCountsHolePairs ==
    \A i \in DOMAIN obj :
        Returned(i, "board_adjusted_hand_type") =>
            LET o == obj[i]
                n == Cardinality(HoleMadePairs(o))
            IN  /\ _board_type(o) = Some(BestCategory(BoardCards(o)))
                /\ o._hand_type \in {HIGH_CARD, PAIR, TWO_PAIR} =>
                      ret.val = CASE n = 0 -> HIGH_CARD
                                  [] n = 1 -> PAIR
                                  [] n = 2 -> TWO_PAIR
                /\ (/\ o._hand_type = FULL_HOUSE
                    /\ BestCategory(BoardCards(o)) < FULL_HOUSE) =>
                      ret.val = FULL_HOUSE

\* C18 amended: as claimed, except that on a board that itself holds two pair
\* one playing pair made with a hole card gives TWO_PAIR.
C18_AdjustedByBoardType ==
    \A i \in DOMAIN obj :
        Returned(i, "board_adjusted_hand_type") =>
            LET o == obj[i]
                n == Cardinality(HoleMadePairs(o))
                board == BestCategory(BoardCards(o))
            IN  /\ _board_type(o) = Some(board)
                /\ o._hand_type \in {HIGH_CARD, PAIR, TWO_PAIR} =>
                      ret.val = CASE n = 0 -> HIGH_CARD
                                  [] n = 1 /\ board < TWO_PAIR -> PAIR
                                  [] n = 1 /\ board = TWO_PAIR -> TWO_PAIR
                                  [] n = 2 -> TWO_PAIR
                /\ (o._hand_type = FULL_HOUSE /\ board < FULL_HOUSE) =>
                      ret.val = FULL_HOUSE

\* TWO_PAIR was returned for a pocket pair on a board of two pair
C18_Witness ==
    \E i \in DOMAIN obj :
        /\ Returned(i, "board_adjusted_hand_type")
        /\ ret.val = TWO_PAIR
        /\ BestCategory(BoardCards(obj[i])) = TWO_PAIR
        /\ Cardinality(HoleRanks(obj[i])) = 1

(* A hole card replaced by a higher one. *)

\* hand p is hand o with one hole card replaced by a card of the same suit and
\* of a strictly higher rank
RaisedFrom(o, p) ==
    /\ BoardCards(o) = BoardCards(p)
    /\ \E low \in HoleCards(o) \ HoleCards(p) :
       \E high \in HoleCards(p) \ HoleCards(o) :
          /\ HoleCards(o) \ {low} = HoleCards(p) \ {high}
          /\ SuitOf(low) = SuitOf(high)
          /\ RankOf(low) < RankOf(high)

\* both hands are evaluated, to the same hand type
SameTypeEvaluated(o, p) ==
    /\ o._evaluation # 0
    /\ p._evaluation # 0
    /\ o._evaluation \div Pow2[26] = p._evaluation \div Pow2[26]

\* C19 as claimed: replacing one hole card by a card of the same suit and a
\* strictly higher rank, with the hand type unchanged, strictly increases the
\* packed value.
C19_RaisedCardRaisesValue ==
    \A i, j \in DOMAIN obj :
        (RaisedFrom(obj[i], obj[j]) /\ SameTypeEvaluated(obj[i], obj[j])) =>
            obj[i]._evaluation < obj[j]._evaluation

\* the five cards of a hand on a three-card board are the wheel A2345
IsWheel(o) ==
    {RankOf(c) : c \in HoleCards(o) \cup BoardCards(o)} = {12, 0, 1, 2, 3}

\* C19 amended: on a board of three cards, where all five cards play, such a
\* replacement strictly increases the packed value, unless it puts an ace in
\* the place of the six of a six-high straight, which leaves the wheel.
C19_RaisedCardRaisesValueOnFlop ==
    \A i, j \in DOMAIN obj :
        (/\ RaisedFrom(obj[i], obj[j])
         /\ SameTypeEvaluated(obj[i], obj[j])
         /\ Len(obj[i].board_cards) = 3
         /\ ~IsWheel(obj[j])) =>
            obj[i]._evaluation < obj[j]._evaluation

\* on a board of three cards a pair was turned into a higher pair
C19_Witness ==
    \E i, j \in DOMAIN obj :
        /\ RaisedFrom(obj[i], obj[j])
        /\ SameTypeEvaluated(obj[i], obj[j])
        /\ Len(obj[i].board_cards) = 3
        /\ obj[i]._hand_type = PAIR
        /\ obj[i]._evaluation \div Pow2[16] < obj[j]._evaluation \div Pow2[16]

(* The card codec. *)

\* 0-based position of character ch in the string str
IndexIn(ch, str) == Cardinality({k \in 1..Len(str) : \E m \in (k + 1)..Len(str) : str[m] = ch})

\* C20: for every two-character card string s, card_from_str(s) is 4 * rank
\* index + suit index, a value of 0..51; card_to_str(card_from_str(s)) is s and
\* card_from_str(card_to_str(c)) is c for every c of 0..51; card_to_str yields
\* a card string, so the codec is a bijection between the 52 strings and 0..51.
C20_CodecIsBijection ==
    /\ Cardinality(CardStrings) = 52
    /\ ret.op = "card_from_str" =>
          /\ ret.val = 4 * IndexIn(ret.arg[1], _RANK_STR) + IndexIn(ret.arg[2], _SUIT_STR)
          /\ ret.val \in 0..51
    /\ ret.op = "card_to_str" => ret.val \in CardStrings
    /\ ret.op = "card_to_str(card_from_str)" => ret.val = ret.arg
    /\ ret.op = "card_from_str(card_to_str)" => ret.val = ret.arg

\* the ace of spades went through both conversions and came back
C20_Witness ==
    /\ ret.op = "card_to_str(card_from_str)"
    /\ ret.arg = <<"A", "s">>
    /\ ret.val = <<"A", "s">>
    /\ card_from_str(ret.arg) = 51

(* Malformed tokens. *)

\* token c has two characters, a rank of 23456789TJQKA and a suit of cdhs
WellFormedToken(c) ==
    /\ Len(c) = 2
    /\ \E k \in 1..13 : _RANK_STR[k] = c[1]
    /\ \E k \in 1..4 : _SUIT_STR[k] = c[2]

\* C21 as claimed: card_from_str fails with InvalidCardError for every token
\* with a rank character outside 23456789TJQKA or a suit character outside the
\* suit alphabet, and for every token that is not 2 characters long.
C21_MalformedTokenIsInvalidCardError ==
    (ret.op = "card_from_str" /\ ~WellFormedToken(ret.arg)) =>
        ret.raised = "InvalidCardError"

\* C21 amended: card_from_str fails for every such token, with ValueError when
\* the token is not 2 characters long and with KeyError when a character of a
\* 2-character token is outside its alphabet; it returns for every other token.
C21_MalformedTokenFails ==
    ret.op = "card_from_str" =>
        ret.raised = (IF Len(ret.arg) # 2 THEN "ValueError"
                      ELSE IF WellFormedToken(ret.arg) THEN "" ELSE "KeyError")

\* a rank with a character that is no suit was refused
C21_Witness ==
    /\ ret.op = "card_from_str"
    /\ ret.arg = <<"A", "x">>
    /\ ret.raised = "KeyError"

(* Hands no game can deal. *)

\* the cards of a string of two-character tokens, in order
ParseCards(str) ==
    [k \in 1..(Len(str) \div 2) |->
        4 * IndexIn(str[2 * k - 1], _RANK_STR) + IndexIn(str[2 * k], _SUIT_STR)]

\* the set of the cards of a list
CardSet(cards) == {cards[k] : k \in DOMAIN cards}

\* the cards are no hand of the game: a card is held twice, or the hole is not
\* 2 cards, or the board is not 0, 3, 4 or 5 cards
NoValidHand(hand_cards, board_cards) ==
    \/ Cardinality(CardSet(hand_cards) \cup CardSet(board_cards))
           # Len(hand_cards) + Len(board_cards)
    \/ Len(hand_cards) # 2
    \/ Len(board_cards) \notin {0, 3, 4, 5}

\* C22 as claimed: constructing a Hand with a card held twice, or a hole of
\* other than 2 cards, or a board of other than 0, 3, 4 or 5 cards fails with
\* InvalidHandError at construction, so no such instance exists.
C22_InvalidHandIsRefused ==
    /\ \A i \in DOMAIN obj :
          ~NoValidHand(ParseCards(obj[i].hand), ParseCards(obj[i].board))
    /\ (ret.op = "Hand" /\ NoValidHand(ParseCards(ret.arg[1]), ParseCards(ret.arg[2]))) =>
          ret.raised = "InvalidHandError"

\* C22 amended: constructing a Hand from well-formed card tokens succeeds
\* whatever the cards are; the instance keeps every card as given, repeated
\* cards included, and is not yet evaluated.
C22_AnyCardsAreAccepted ==
    ret.op = "Hand" =>
        /\ ret.raised = ""
        /\ ret.inst \in DOMAIN obj
        /\ LET o == obj[ret.inst]
               hole == ParseCards(ret.arg[1])
               board == ParseCards(ret.arg[2])
           IN  /\ o.hand_cards = hole
               /\ o.board_cards = board
               /\ o.all_cards = hole \o board
               /\ o._evaluation = 0
               /\ o._rank_count = None

\* a Hand of three hole cards, one of them on the board too, was constructed
C22_Witness ==
    /\ ret.op = "Hand"
    /\ ret.raised = ""
    /\ Len(obj[1].hand_cards) = 3
    /\ \E k \in DOMAIN obj[1].board_cards :
          \E m \in DOMAIN obj[1].hand_cards : obj[1].board_cards[k] = obj[1].hand_cards[m]

(* Two callers racing on the first evaluation. *)

\* what the call of caller t answers on an evaluated instance no other caller
\* touches: the straight flush branch leaves _hand_type 0 and _rankset unset
SequentialAnswer(t) ==
    LET type == obj[1]._evaluation \div Pow2[26]
    IN  IF ret[t].op = "is"
        THEN (IF type = STRAIGHT_FLUSH THEN 0 ELSE type) = ret[t].arg
        ELSE IF type = STRAIGHT_FLUSH THEN None
        ELSE Some(Value({RankOf(c) : c \in HoleCards(obj[1]) \cup BoardCards(obj[1])}))

\* caller t has an answer that differs from the sequential one
WrongAnswer(t) == ret[t].pc = "done" /\ ret[t].val # SequentialAnswer(t)

\* C23: two callers interleaving their first evaluating calls on one Hand can
\* leave one of them with a wrong is_* answer or an unset accessor value, and
\* only the caller that found _evaluation nonzero before the other had written
\* _hand_type and the accounting fields; once a computing run is complete no
\* call writes anything or runs the accounting again, and every call answers
\* the same.
C23_RaceUntilComplete ==
    /\ [](\A t \in Threads :
            /\ WrongAnswer(t) => (ret[t].cached /\ ~ret[t].settled)
            /\ (ret[t].pc = "done" /\ ret[t].settled) =>
                  (ret[t].cached /\ ret[t].val = SequentialAnswer(t)))
    /\ [][Complete(obj[1]) => (obj' = obj /\ accountings' = accountings)]_vars

\* is_pair() answered False on a pair, and get_rankset() None, to a caller that
\* found the sentinel set by the other caller
C23_Witness ==
    /\ obj[1]._evaluation \div Pow2[26] = PAIR
    /\ \E t \in Threads :
          /\ ret[t].pc = "done"
          /\ ret[t].cached
          /\ \/ ret[t].op = "is" /\ ret[t].arg = PAIR /\ ret[t].val = FALSE
             \/ ret[t].op = "get_rankset" /\ ret[t].val = None
    /\ accountings[1] = 1

(* The inputs of a Hand. *)

\* the strings and the parsed cards of an instance
Inputs(o) == <<o.hand, o.board, o.hand_cards, o.board_cards, o.all_cards>>

\* C24: no evaluating, accessor or categorizing call changes the hand and
\* board strings or hand_cards, board_cards and all_cards of a Hand: every step
\* leaves them as the constructor set them.
C24_InputsNeverChange ==
    /\ [](\A i \in DOMAIN obj :
            /\ obj[i].hand_cards = ParseCards(obj[i].hand)
            /\ obj[i].board_cards = ParseCards(obj[i].board)
            /\ obj[i].all_cards = obj[i].hand_cards \o obj[i].board_cards)
    /\ [][\A i \in DOMAIN obj : Inputs(obj'[i]) = Inputs(obj[i])]_vars

\* a classifier ran on an evaluated instance whose cards are those parsed
C24_Witness ==
    /\ ret.op = "get_pair_category"
    /\ obj[1]._evaluation # 0
    /\ obj[1]._rank_count # None
    /\ Len(obj[1].all_cards) = 5
    /\ obj[1].all_cards = ParseCards(obj[1].hand \o obj[1].board)

(* Straights. *)

\* rank r is in rankset
HasRank(rankset, r) == (rankset \div Pow2[r]) % 2 = 1

\* the top ranks of the runs of five consecutive ranks in rankset
RunTops(rankset) ==
    {top \in 4..12 : \A r \in (top - 4)..top : HasRank(rankset, r)}

\* rankset holds the wheel: the ace with 2, 3, 4 and 5
HoldsWheel(rankset) == \A r \in {12, 0, 1, 2, 3} : HasRank(rankset, r)

\* C26: find_straight returns 0 exactly when the rankset holds neither five
\* consecutive ranks nor the wheel; otherwise the one bit of the top rank of
\* the highest run, and the bit of the five (1 << 3) for the wheel only when
\* there is no run.
C26_FindStraightTop ==
    ret.op = "find_straight" =>
        LET tops == RunTops(ret.arg)
        IN  /\ (ret.val = 0) <=> (tops = {} /\ ~HoldsWheel(ret.arg))
            /\ tops # {} =>
                  ret.val = Pow2[CHOOSE t \in tops : \A u \in tops : u <= t]
            /\ (tops = {} /\ HoldsWheel(ret.arg)) => ret.val = Pow2[3]

\* ace to six: the wheel is there and the six-high straight is reported
C26_Witness ==
    /\ ret.op = "find_straight"
    /\ HoldsWheel(ret.arg)
    /\ HasRank(ret.arg, 4)
    /\ ret.val = Pow2[4]

(* The layout of the packed value. *)

\* the ranks held n times in hole plus board
RanksHeld(o, n) ==
    {r \in 0..12 : RankTotal(HoleCards(o) \cup BoardCards(o), r) = n}

\* C27: the rank bits of a packed value stay below bit 26, so the value is
\* (HandType << 26) + (value & 0x3FFFFFF) and the low 26 bits alone give the
\* primary rank of the category: the bit of the rank held four times above
\* the kicker bits for quads, for every rank from 2 to ace, and likewise the
\* rank of the trips and of the pair.
C27_RankBitsBelowTypeField ==
    \A i \in DOMAIN obj :
        obj[i]._evaluation # 0 =>
            LET type == obj[i]._evaluation \div Pow2[26]
                distinguisher == obj[i]._evaluation % Pow2[26]
            IN  /\ type = QUADS =>
                      distinguisher \div Pow2[14] = Value(RanksHeld(obj[i], 4))
                /\ type = TRIPS =>
                      distinguisher \div Pow2[13] = Value(RanksHeld(obj[i], 3))
                /\ type = PAIR =>
                      distinguisher \div Pow2[13] = Value(RanksHeld(obj[i], 2))

(* The unseen cards above a flush draw. *)

\* the cards of suit s above rank r that are neither in the hole nor on the board
UnseenAbove(o, s, r) ==
    {c \in 0..51 : SuitOf(c) = s /\ RankOf(c) > r /\ c \notin CardsOf(o)}

\* C28: the third component of a result of FlushDraws.categorize other than
\* NO_FLUSH_DRAW is 1 plus the number of cards of the selected suit that rank
\* above its highest hole card and are neither in the hole nor on the board;
\* it is 1 exactly when no higher card of the suit is unseen.
C28_OnePlusUnseenHigherCards ==
    \A i \in DOMAIN obj :
        (Returned(i, "FlushDraws.categorize") /\ ret.val[1] # "NO_FLUSH_DRAW") =>
            LET unseen == UnseenAbove(obj[i], SelectedSuit(obj[i]), TopHoleRank(obj[i]))
            IN  /\ ret.val[3] = 1 + Cardinality(unseen)
                /\ (ret.val[3] = 1) <=> (unseen = {})

\* a queen of spades in the hole with the ace on neither side and the king
\* unseen as well: the third component is 3
C28_Witness ==
    \E i \in DOMAIN obj :
        /\ Returned(i, "FlushDraws.categorize")
        /\ ret.val[1] = "3_FLUSH"
        /\ SelectedSuit(obj[i]) = 3
        /\ TopHoleRank(obj[i]) = 10
        /\ ret.val[3] = 3

----------------------------------------------------------------------------
(* C29: the window a GUTSHOT result counts in. *)

\* the offsets of the 5-rank windows of R that match a gutshot pattern
GutshotWindows(R) == {lo \in Offsets : GutshotAt(R, lo)}
LowestOf(S) == CHOOSE lo \in S : \A other \in S : lo <= other
HighestOf(S) == CHOOSE lo \in S : \A other \in S : lo >= other

\* C29 as stated: when more than one 5-rank window matches a gutshot pattern,
\* the count of a GUTSHOT result is the number of contributing hole ranks in
\* the lowest matching window
C29_CountOfLowestWindow ==
    \A i \in DOMAIN obj :
        (Returned(i, "StraightDrawMasks.categorize") /\ ret.val[1] = "GUTSHOT") =>
            LET W == GutshotWindows(AllRanks(obj[i]))
            IN  Cardinality(W) > 1 =>
                    CountsIn(Contributing(obj[i]), LowestOf(W)..(LowestOf(W) + 4), ret.val[2])

\* C29 amended: the scan runs over the offsets from 8 down to 0, so when more
\* than one 5-rank window matches a gutshot pattern the count of a GUTSHOT
\* result is the number of contributing hole ranks in the highest matching
\* window
C29_CountOfHighestWindow ==
    \A i \in DOMAIN obj :
        (Returned(i, "StraightDrawMasks.categorize") /\ ret.val[1] = "GUTSHOT") =>
            LET W == GutshotWindows(AllRanks(obj[i]))
            IN  Cardinality(W) > 1 =>
                    CountsIn(Contributing(obj[i]), HighestOf(W)..(HighestOf(W) + 4), ret.val[2])

\* a GUTSHOT result on ranks with two matching windows that hold different
\* numbers of contributing hole ranks
C29_Witness ==
    \E i \in DOMAIN obj :
        /\ Returned(i, "StraightDrawMasks.categorize")
        /\ ret.val[1] = "GUTSHOT"
        /\ LET W == GutshotWindows(AllRanks(obj[i]))
               C == Contributing(obj[i])
           IN  /\ Cardinality(W) > 1
               /\ Cardinality(C \cap (LowestOf(W)..(LowestOf(W) + 4)))
                    # Cardinality(C \cap (HighestOf(W)..(HighestOf(W) + 4)))

----------------------------------------------------------------------------
(* C25: Line with the default effective_stack. *)

\* a line string of the solver: the root r:0, then checks or calls, bets of
\* growing size and at most one fold, which ends the line and answers a bet;
\* nothing follows the third street once it is closed
WellFormedLine(line) ==
    LET a == Split(line, 1, << >>, << >>)
        acts == SubSeq(a, 3, Len(a))
        IsBet(k) == acts[k][1] = "b"
    IN  /\ Len(a) >= 2 /\ a[1] = <<"r">> /\ a[2] = <<"0">>
        /\ \A k \in DOMAIN acts :
              /\ acts[k] \in LineTokens
              /\ acts[k] = <<"f">> => (k = Len(acts) /\ k > 1 /\ IsBet(k - 1))
              /\ \A j \in 1..(k - 1) :
                    (IsBet(j) /\ IsBet(k)) => int(Tail(acts[j])) < int(Tail(acts[k]))
              /\ Len(GroupStreets(SubSeq(acts, 1, k - 1), << >>, << >>).streets) < 3

\* the documented street views of an instance: the actions are the pieces of
\* the line string, the streets hold them in order, and the streets as lines
\* are the streets joined
RECURSIVE Flatten(_)
Flatten(streets) == IF streets = << >> THEN << >> ELSE Head(streets) \o Flatten(Tail(streets))
StreetViews(o) ==
    /\ Join(o.actions) = o.line_str
    /\ Flatten(o.streets_as_actions) = o.actions
    /\ \A k \in DOMAIN o.streets_as_actions :
          o.streets_as_lines[k] = Join(o.streets_as_actions[k])

\* C25: Line(line) with the default effective_stack None succeeds for every
\* well-formed line string and yields the documented street views, and so
\* does the Line that get_parent() builds
C25_DefaultLineConstructs ==
    /\ (ret.op = "Line" /\ ret.arg[2] = None /\ WellFormedLine(ret.arg[1])) =>
            (ret.raised = "" /\ StreetViews(obj[1]))
    /\ (ret.op = "get_parent" /\ WellFormedLine(ret.arg)) =>
            (ret.raised = "" /\ (ret.val # None => StreetViews(ret.val[1])))

----------------------------------------------------------------------------
(* C30: the seat to act after apply_previous_action. *)

\* the GameState the replay of Game has reached
GameStateAtNode(i) == obj[i].game_states[Len(obj[i].game_states)]

\* C30: after any sequence of apply_previous_action calls the current_player
\* of the returned state is a seat whose in_hand flag is true, and a recorded
\* sequence in which folded seats never act again is replayed without a
\* RuntimeError
C30_CurrentPlayerInHand ==
    \A i \in DOMAIN obj :
        (ret.inst = i /\ ret.op = "apply_previous_action") =>
            /\ ret.raised = ""
            /\ GameStateAtNode(i).in_hand[GameStateAtNode(i).current_player]

====
